---- MODULE Spec2Model ----
(***************************************************************************)
(* A model of the universal MCP client: the canonical conversation history *)
(* kept by MCPClient, its trimming, the provider adapters' formatting of   *)
(* that history, the tool-call / continuation loop and the CLI commands.   *)
(*                                                                         *)
(* The asynchronous methods of MCPClient are modelled as a stack of        *)
(* suspended activations (one stack per 'line' handler in flight); an      *)
(* action runs all the synchronous code between two await points.          *)
(***************************************************************************)
EXTENDS Integers, Sequences, FiniteSets, TLC

\* ------------------------------------------------------------------ bounds
\* Number of user queries entered in one run.
MaxQueries == 2
\* Number of model responses that carry tool calls in one run.
MaxToolRounds == 1
MaxNestedRounds == 2
\* Number of 'line' handlers that may be in flight at once (SpecOverlap).
MaxTasks == 2
\* Number of lines entered while a handler is in flight (SpecOverlap).
MaxOverlaps == 1
\* Largest value the millisecond clock read by Date.now() takes.
MaxClock == 1
\* Longest history _trimConversationHistory is applied to (SpecTrim).
MaxLen == 4
MaxCalls == 3
MaxFormatLen == 3
MaxBlocks == 3

\* ------------------------------------------------------------- environment
Providers == {"anthropic", "openai", "google", "deepseek", "huggingface"}

\* The API keys present in process.env in the modelled runs: every key but
\* DEEPSEEK_API_KEY, so that a switch can fail on a missing credential.
ApiKeys == {"anthropic", "openai", "google", "huggingface"}

\* Provider names a user may type after /setprovider ("mistral" is no
\* supported provider).
ProviderNames == Providers \cup {"mistral"}

\* Keys of HF_PARTNER_URL_SEGMENTS, and a partner that is not among them.
HF_PARTNER_URL_SEGMENTS == {"together", "nscale", "novita", "fireworks-ai", "cerebras", "sambanova"}
PartnerNames == {"together", "acme"}

\* "default" stands for process.env.<PROVIDER>_MODEL || the built-in default,
\* "custom" for a model named on the command line.
ModelNames == {"custom"}

SystemMessages == {"sys0", "sys1"}
QueryTexts == {"q"}
ToolNames == {"shot"}
\* Names a model may ask for; "ghost" is offered by no connected server.
CalledNames == {"shot", "ghost"}

\* Configured values of maxConversationHistoryLength (0: no limit).
HistoryBounds == {0, 2}

\* ------------------------------------------------------------------ values
NoImg == [mimeType |-> "", data |-> ""]
PNG == [mimeType |-> "image/png", data |-> "B64"]
SVG == [mimeType |-> "image/svg+xml", data |-> "B64"]
HasImg(i) == i.mimeType # "" /\ i.data # ""

NoId == [n |-> "", t |-> 0]
NoResult == [kind |-> "none", text |-> "", img |-> NoImg]
\* What client.callTool() resolves to.
ToolResults == { [kind |-> "content", text |-> "r", img |-> NoImg],
                 [kind |-> "content", text |-> "r", img |-> PNG] }
\* JSON.stringify({ error: error.message })
ErrorResult == [kind |-> "string", text |-> "error", img |-> NoImg]

TextPart(t) == [type |-> "text", text |-> t, img |-> NoImg]
ImagePart(ty, i) == [type |-> ty, text |-> "", img |-> i]

Msg(role, text, parts, calls, id, name, result) ==
    [role |-> role, text |-> text, parts |-> parts, tool_calls |-> calls,
     tool_call_id |-> id, name |-> name, result |-> result]
UserMsg(q) == Msg("user", q, << >>, << >>, NoId, "", NoResult)
UserPartsMsg(parts) == Msg("user", "", parts, << >>, NoId, "", NoResult)
AssistantMsg(text, calls) == Msg("assistant", text, << >>, calls, NoId, "", NoResult)
ToolMsg(call, result) == Msg("tool", "", << >>, << >>, call.id, call.name, result)
SystemMsg(t) == Msg("system", t, << >>, << >>, NoId, "", NoResult)
IsArrayContent(m) == m.role = "user" /\ m.parts # << >>

\* Texts of the error messages MCPClient appends as assistant turns.
ApiError == "An API error occurred: e"
ApiErrorContinuing == "An API error occurred while continuing the conversation: e"
MissingInstance == "Error: LLM Provider instance is missing."
StartsWithApiError(t) == t \in {ApiError, ApiErrorContinuing}

Last(s) == s[Len(s)]
SeqSet(s) == { s[i] : i \in 1..Len(s) }
MaxOf(S) == CHOOSE x \in S : \A y \in S : y <= x

\* --------------------------------------------------------------- trimming
\* A trim that would drop the newest messages instead of the oldest.
TrimWrongEnd(conv, max) ==
    IF max > 0 /\ Len(conv) > max THEN SubSeq(conv, 1, max) ELSE conv
\* A trim that would already act on a history at the bound.
TrimAtBound(conv, max) ==
    IF max > 0 /\ Len(conv) >= max
    THEN SubSeq(conv, Len(conv) - max + 2, Len(conv))
    ELSE conv
\* MCPClient._trimConversationHistory: splice(0, length - max) when a bound
\* is configured and exceeded (max = 0 stands for null).
TrimConversationHistory(conv, max) ==
    IF max > 0 /\ Len(conv) > max
    THEN SubSeq(conv, Len(conv) - max + 1, Len(conv))
    ELSE conv

\* ---------------------------------------------------- provider adapters
\* One message of a provider request.  calls: ids of the tool calls an
\* assistant turn carries; results: the tool results a turn carries;
\* imgs: the images a turn carries as native image parts.
FM(role, text, calls, results, imgs) ==
    [role |-> role, text |-> text, calls |-> calls, results |-> results, imgs |-> imgs]
FR(id, name, text, img) == [id |-> id, name |-> name, text |-> text, img |-> img]

ImagePlaceholder == "Tool execution was successful. Output includes image data"
ImageCapturedSummary == "image_captured_summary"
Stringified == "JSON.stringify(result)"
ImagePrompt == "image prompt"

CallIds(calls) == [ i \in 1..Len(calls) |-> calls[i].id ]

\* Media types matched by [\w\/\-\.]+ in _parseDataUrl.
WordMimeTypes == {"image/png", "image/jpeg"}
\* A data URL `data:<mimeType>;base64,<data>` is kept as the pair it was
\* built from; _parseDataUrl gives the pair back when its regex matches.
ParseDataUrl(url) == IF url.mimeType \in WordMimeTypes THEN url ELSE NoImg

\* extractImageFromToolResult (same in every adapter that has one).
ExtractImageFromToolResult(r) ==
    IF r.kind = "content" /\ HasImg(r.img) THEN r.img ELSE NoImg

\* ------------------------------------------------- tool results, block by block
\* JSON texts and a text that is no JSON.  A JSON value is written as its
\* JSON text: JSON.stringify of the value gives the text back.
WellFormed == "{\"x\":1}"
OtherJson == "{\"y\":2}"
Malformed == "{oops"
NullText == "null"
DataObject == "{\"k\":2}"
DataScalar == "7"
Undefined == "undefined"

\* JSON.parse: the value of a JSON text; ok = FALSE: it throws SyntaxError.
JSONParse(text) ==
    IF text \in {WellFormed, OtherJson, DataObject} THEN [ok |-> TRUE, value |-> "object"]
    ELSE IF text = NullText THEN [ok |-> TRUE, value |-> "null"]
    ELSE IF text = DataScalar THEN [ok |-> TRUE, value |-> "scalar"]
    ELSE [ok |-> FALSE, value |-> ""]

\* The blocks of the content list of an MCP tool result.
TextBlock(t) == [type |-> "text", text |-> t, data |-> Undefined, img |-> NoImg]
DataBlock(d) == [type |-> "data", text |-> "", data |-> d, img |-> NoImg]
ImageBlock(i) == [type |-> "image", text |-> "", data |-> Undefined, img |-> i]
ResourceBlock == [type |-> "resource", text |-> "", data |-> Undefined, img |-> NoImg]

\* A tool result as callTool gives it: a string, or an object with a
\* content list.
RawString(t) == [kind |-> "string", text |-> t, blocks |-> << >>]
RawContent(blocks) == [kind |-> "content", text |-> "", blocks |-> blocks]
\* The tool results of the client model: a content list of at most one
\* text block and one image block; the stringified error of the catch
\* block.
AsRaw(r) ==
    IF r.kind = "content"
    THEN RawContent((IF r.text # "" THEN <<TextBlock(r.text)>> ELSE << >>)
                    \o (IF HasImg(r.img) THEN <<ImageBlock(r.img)>> ELSE << >>))
    ELSE [kind |-> r.kind, text |-> r.text, blocks |-> << >>]

\* The positions of the blocks of each kind the converters look for.
JsonTextIdx(blocks) ==
    { k \in 1..Len(blocks) : blocks[k].type = "text" /\ JSONParse(blocks[k].text).ok }
TextIdx(blocks) == { k \in 1..Len(blocks) : blocks[k].type = "text" }
DefinedDataIdx(blocks) ==
    { k \in 1..Len(blocks) : blocks[k].type = "data" /\ blocks[k].data # Undefined }
ObjectDataIdx(blocks) ==
    { k \in 1..Len(blocks) : blocks[k].type = "data" /\ blocks[k].data = DataObject }
ImageIdx(blocks) == { k \in 1..Len(blocks) : blocks[k].type = "image" /\ HasImg(blocks[k].img) }
MinOf(S) == CHOOSE k \in S : \A n \in S : k <= n

\* JSON.stringify(mcpToolResult): the serialisation of a content list that
\* has an image block holds the block's base64 data.
StringifiedImage == "JSON.stringify(result) holding the data of its image block"
Stringify(t) ==
    IF t.kind = "content" /\ ImageIdx(t.blocks) # {} THEN StringifiedImage ELSE Stringified

\* A converter that looks for a text block before it looks for JSON.
SummariseFirstText(t) ==
    IF t.kind = "string" THEN t.text
    ELSE IF t.kind = "content" /\ TextIdx(t.blocks) # {}
    THEN t.blocks[MinOf(TextIdx(t.blocks))].text
    ELSE IF t.kind = "content" /\ DefinedDataIdx(t.blocks) # {}
    THEN t.blocks[MinOf(DefinedDataIdx(t.blocks))].data
    ELSE Stringified

\* The text the OpenAI-compatible converters give for a content list with
\* no image: the first text block that parses as JSON, else the first data
\* block stringified, else the first text block, else the whole result
\* stringified.
SummariseContent(t) ==
    IF t.kind = "string" THEN t.text
    ELSE IF t.kind = "content" /\ JsonTextIdx(t.blocks) # {}
    THEN t.blocks[MinOf(JsonTextIdx(t.blocks))].text
    ELSE IF t.kind = "content" /\ DefinedDataIdx(t.blocks) # {}
    THEN t.blocks[MinOf(DefinedDataIdx(t.blocks))].data
    ELSE IF t.kind = "content" /\ TextIdx(t.blocks) # {}
    THEN t.blocks[MinOf(TextIdx(t.blocks))].text
    ELSE Stringify(t)

\* OpenAIProvider._convertToolResultForOpenAI and
\* HuggingFaceProvider._convertToolResultForPartner.
ConvertToolResultForOpenAI(t) ==
    IF t.kind = "content" /\ ImageIdx(t.blocks) # {} THEN ImagePlaceholder
    ELSE SummariseContent(t)

\* AnthropicProvider.convertToolResult: the text blocks, image blocks and
\* stringified object data blocks of the content list, given here by the
\* first text and the first image among them; "" when the list yields
\* none.
AnthropicConvertToolResult(t) ==
    IF t.kind = "string" THEN [text |-> t.text, img |-> NoImg]
    ELSE IF t.kind # "content" THEN [text |-> Stringified, img |-> NoImg]
    ELSE LET texts == TextIdx(t.blocks) \cup ObjectDataIdx(t.blocks)
             first == IF texts = {} THEN ResourceBlock ELSE t.blocks[MinOf(texts)]
         IN [text |-> IF first.type = "text" THEN first.text
                      ELSE IF first.type = "data" THEN first.data ELSE "",
             img |-> IF ImageIdx(t.blocks) = {} THEN NoImg
                     ELSE t.blocks[MinOf(ImageIdx(t.blocks))].img]

ProcessedParts == "Processed parts"
FailedToProcess == "Failed to process tool result into valid object."
\* GoogleProvider.convertToolResult, the response of the functionResponse
\* part: the first JSON text parsed, else the first object data block,
\* else a summary of the image, else a count of the parts; it never holds
\* image data.
GoogleConvertToolResult(t) ==
    IF t.kind = "content"
    THEN IF JsonTextIdx(t.blocks) # {} THEN t.blocks[MinOf(JsonTextIdx(t.blocks))].text
         ELSE IF ObjectDataIdx(t.blocks) # {} THEN t.blocks[MinOf(ObjectDataIdx(t.blocks))].data
         ELSE IF ImageIdx(t.blocks) # {} THEN ImageCapturedSummary
         ELSE IF t.blocks # << >> THEN ProcessedParts
         ELSE FailedToProcess
    ELSE t.text

RECURSIVE PartsImages(_, _)
\* The image parts a user content array yields under an adapter.
PartsImages(parts, kinds) ==
    IF parts = << >> THEN << >>
    ELSE LET p == Head(parts)
             i == IF p.type \in kinds
                  THEN (IF p.type = "image_url" /\ "parse" \in kinds
                        THEN ParseDataUrl(p.img) ELSE p.img)
                  ELSE NoImg
         IN (IF HasImg(i) THEN <<i>> ELSE << >>) \o PartsImages(Tail(parts), kinds)

RECURSIVE PartsText(_)
PartsText(parts) ==
    IF parts = << >> THEN << >>
    ELSE (IF Head(parts).type = "text" THEN <<Head(parts).text>> ELSE << >>)
         \o PartsText(Tail(parts))

\* A user message as a request turn: its text parts and the images of the
\* part types the adapter converts.
UserTurn(m, kinds) ==
    IF IsArrayContent(m)
    THEN LET ts == PartsText(m.parts)
             is == PartsImages(m.parts, kinds)
         IN IF ts = << >> /\ is = << >> THEN << >>
            ELSE <<FM("user", IF ts = << >> THEN "" ELSE ts[1], << >>, << >>, is)>>
    ELSE <<FM("user", m.text, << >>, << >>, << >>)>>

AssistantTurn(role, m) ==
    IF m.text # "" \/ m.tool_calls # << >>
    THEN <<FM(role, m.text, CallIds(m.tool_calls), << >>, << >>)>>
    ELSE << >>

\* The user-content part types an adapter turns into image parts ("parse":
\* image_url parts go through _parseDataUrl).
AnthropicImageKinds == {"image", "image_url", "image_mcp", "parse"}
OpenAIImageKinds == {"image", "image_url", "image_mcp"}
GoogleImageKinds == {"image", "image_url", "image_mcp", "parse"}

\* toolResultsMap of AnthropicProvider.formatConversation: the last tool
\* message of the history with the given tool_call_id.
ToolResultIdx(h, id) == { i \in 1..Len(h) : h[i].role = "tool" /\ h[i].tool_call_id = id }
HasToolResult(h, id) ==
    /\ id # NoId
    /\ ToolResultIdx(h, id) # {}
    /\ LET c == AnthropicConvertToolResult(AsRaw(h[MaxOf(ToolResultIdx(h, id))].result))
       IN c.text # "" \/ HasImg(c.img)

RECURSIVE PendingFor(_, _)
\* The tool_result blocks for those calls of an assistant message whose
\* result is in toolResultsMap.
PendingFor(h, calls) ==
    IF calls = << >> THEN << >>
    ELSE LET c == Head(calls)
         IN (IF HasToolResult(h, c.id)
             THEN LET r == AnthropicConvertToolResult(AsRaw(h[MaxOf(ToolResultIdx(h, c.id))].result))
                  IN <<FR(c.id, c.name, r.text, r.img)>>
             ELSE << >>) \o PendingFor(h, Tail(calls))

RECURSIVE AnthropicFormatFrom(_, _, _)
AnthropicFormatFrom(h, i, pending) ==
    IF i > Len(h)
    THEN IF pending # << >> THEN <<FM("user", "", << >>, pending, << >>)>> ELSE << >>
    ELSE LET m == h[i]
             flushed == IF pending # << >> THEN <<FM("user", "", << >>, pending, << >>)>> ELSE << >>
         IN CASE m.role = "user" ->
                   flushed \o UserTurn(m, AnthropicImageKinds) \o AnthropicFormatFrom(h, i + 1, << >>)
              [] m.role = "assistant" ->
                   LET p == pending \o PendingFor(h, m.tool_calls)
                       flush == p # << >> /\ (i = Len(h) \/ h[i + 1].role # "user")
                   IN AssistantTurn("assistant", m)
                      \o (IF flush THEN <<FM("user", "", << >>, p, << >>)>> ELSE << >>)
                      \o AnthropicFormatFrom(h, i + 1, IF flush THEN << >> ELSE p)
              [] OTHER -> AnthropicFormatFrom(h, i + 1, pending)

\* AnthropicProvider.formatConversation
AnthropicFormatConversation(h) == AnthropicFormatFrom(h, 1, << >>)

RECURSIVE OpenAIFormatFrom(_, _, _)
\* synth: whether the tool branch adds a synthetic user image message
\* (OpenAIProvider does, HuggingFaceProvider does not).
OpenAIFormatFrom(h, i, synth) ==
    IF i > Len(h) THEN << >>
    ELSE LET m == h[i]
             img == ExtractImageFromToolResult(m.result)
         IN (CASE m.role = "user" -> UserTurn(m, OpenAIImageKinds)
               [] m.role = "assistant" -> AssistantTurn("assistant", m)
               [] m.role = "tool" ->
                    <<FM("tool", "", << >>,
                         <<FR(m.tool_call_id, m.name, ConvertToolResultForOpenAI(AsRaw(m.result)), NoImg)>>,
                         << >>)>>
                    \o (IF synth /\ HasImg(img)
                        THEN <<FM("user", ImagePrompt, << >>, << >>, <<img>>)>>
                        ELSE << >>)
               [] OTHER -> << >>)
            \o OpenAIFormatFrom(h, i + 1, synth)

\* The configured system message is put first unless the history itself
\* starts with a system message; the loop skips every system message of the
\* history (the OTHER case of the loops).
SystemTurn(h, sys) ==
    IF sys # "" /\ (Len(h) = 0 \/ h[1].role # "system")
    THEN <<FM("system", sys, << >>, << >>, << >>)>>
    ELSE << >>

\* OpenAIProvider.formatConversation
OpenAIFormatConversation(h, sys) == SystemTurn(h, sys) \o OpenAIFormatFrom(h, 1, TRUE)

\* HuggingFaceProvider.formatConversation
HuggingFaceFormatConversation(h, sys) == SystemTurn(h, sys) \o OpenAIFormatFrom(h, 1, FALSE)

\* functionCall parts carry the name and the arguments of a call, no id.
FunctionCalls(names) == [ k \in 1..Len(names) |-> [n |-> names[k], t |-> 0] ]
CallNames(calls) == [ k \in 1..Len(calls) |-> calls[k].name ]

RECURSIVE GoogleFormatFrom(_, _)
GoogleFormatFrom(h, i) ==
    IF i > Len(h) THEN << >>
    ELSE LET m == h[i]
         IN (CASE m.role = "user" -> UserTurn(m, GoogleImageKinds)
               [] m.role = "assistant" ->
                    IF m.text # "" \/ m.tool_calls # << >>
                    THEN <<FM("model", m.text, FunctionCalls(CallNames(m.tool_calls)), << >>, << >>)>>
                    ELSE << >>
               [] m.role = "tool" /\ m.name # "" /\ m.tool_call_id # NoId ->
                    <<FM("function", "", << >>,
                         <<FR(NoId, m.name, GoogleConvertToolResult(AsRaw(m.result)), NoImg)>>, << >>)>>
               [] OTHER -> << >>)
            \o GoogleFormatFrom(h, i + 1)

\* GoogleProvider.formatConversation
GoogleFormatConversation(h) == GoogleFormatFrom(h, 1)

\* DeepSeekProvider._convertToolResultForDeepSeek: no image check.
ConvertToolResultForDeepSeek(t) == SummariseContent(t)

ImageOmittedNote == "[Image data was present in history but not sent to DeepSeek provider]"

RECURSIVE DeepSeekFormatFrom(_, _)
DeepSeekFormatFrom(h, i) ==
    IF i > Len(h) THEN << >>
    ELSE LET m == h[i]
         IN (CASE m.role = "user" ->
                    IF IsArrayContent(m)
                    THEN LET ts == PartsText(m.parts)
                         IN <<FM("user", IF ts # << >> THEN ts[1] ELSE ImageOmittedNote,
                                 << >>, << >>, << >>)>>
                    ELSE <<FM("user", m.text, << >>, << >>, << >>)>>
               [] m.role = "assistant" -> AssistantTurn("assistant", m)
               [] m.role = "tool" ->
                    <<FM("tool", "", << >>,
                         <<FR(m.tool_call_id, m.name, ConvertToolResultForDeepSeek(AsRaw(m.result)), NoImg)>>,
                         << >>)>>
               [] OTHER -> << >>)
            \o DeepSeekFormatFrom(h, i + 1)

\* DeepSeekProvider.formatConversation
DeepSeekFormatConversation(h, sys) == SystemTurn(h, sys) \o DeepSeekFormatFrom(h, 1)

\* ------------------------------------------------------ provider instances
\* currentLlmProviderInstance: the adapter object with the model name and
\* system message it was constructed with and, for Google, the contents
\* of its chat session.  chat: whether this.chatSession is set.
NoInst ==
    [kind |-> "none", model |-> "", sys |-> "", session |-> << >>, tools |-> {}, chat |-> FALSE]

\* An adapter whose chat session would start without the history.
NewProviderEmptySession(kind, model, sys, conv, decl) ==
    [kind |-> kind, model |-> model, sys |-> sys, session |-> << >>, tools |-> decl,
     chat |-> kind = "google"]
\* new XProvider(key, model, systemMessage, tools, logger, conversation):
\* GoogleProvider.initialize starts the chat session with the formatted
\* history; the other adapters keep no history.  tools: the tools whose
\* declarations the adapter's requests carry (for Google: the declarations
\* the generative model of the chat session was created with).
NewProvider(kind, model, sys, conv, decl) ==
    [kind |-> kind, model |-> model, sys |-> sys,
     session |-> IF kind = "google" THEN GoogleFormatConversation(conv) ELSE << >>,
     tools |-> decl, chat |-> kind = "google"]

\* new GoogleProvider(...) when the SDK may refuse: the constructor calls
\* the async initialize without awaiting it, so that a throw of
\* getGenerativeModel or startChat (starts = FALSE) rejects a promise nobody
\* holds; the constructor returns an adapter whose chatSession is the null
\* BaseProvider's constructor stored.
NewProviderStarting(kind, model, sys, conv, decl, starts) ==
    IF kind = "google" /\ ~starts
    THEN [NewProvider(kind, model, sys, conv, decl) EXCEPT !.session = << >>, !.chat = FALSE]
    ELSE NewProvider(kind, model, sys, conv, decl)

\* instance.reconfigure(systemMessage, allTools).  BaseProvider.reconfigure
\* stores both, and the stateless adapters read them at each request.
\* GoogleProvider.reconfigure re-creates at most its generativeModel (when
\* the system message differs) and never restarts this.chatSession, which
\* stays bound to the model it was started from.
Reconfigure(inst, sys, decl) ==
    IF inst.kind = "google" THEN inst ELSE [inst EXCEPT !.sys = sys, !.tools = decl]

\* instance.formatConversation(history)
FormatConversation(inst, h) ==
    CASE inst.kind = "anthropic" -> AnthropicFormatConversation(h)
      [] inst.kind = "openai" -> OpenAIFormatConversation(h, inst.sys)
      [] inst.kind = "huggingface" -> HuggingFaceFormatConversation(h, inst.sys)
      [] inst.kind = "deepseek" -> DeepSeekFormatConversation(h, inst.sys)
      [] OTHER -> GoogleFormatConversation(h)

\* A formatter that would trim the list it is given, as the call that is
\* commented out in OpenAIProvider.formatConversation would.
HistoryAfterFormatTrimmed(inst, h) == IF h = << >> THEN h ELSE Tail(h)
\* The list formatConversation was given, after the call: the adapters
\* build new messages and parts and only read the history's.
HistoryAfterFormat(inst, h) == h

\* A request in flight: the provider and model it went to and the turns
\* it carries (for Google: the session's history and the new turn).
NoReq == [to |-> "none", model |-> "", sys |-> "", msgs |-> << >>, tools |-> {}]
Req(inst, msgs) ==
    [to |-> inst.kind, model |-> inst.model, sys |-> inst.sys, msgs |-> msgs, tools |-> inst.tools]

\* ------------------------------------------------------- client state
\* A suspended activation.  f = "pq": processQuery awaiting sendMessage;
\* f = "loop": the tool loop of handleLLMResponse, awaiting callTool for
\* the first of calls, or waiting for continueConversation to return;
\* f = "cc": continueConversation awaiting sendMessage, or waiting for the
\* nested handleLLMResponse to return.  ginst: the googleProvider captured
\* by continueConversation; stale: the instance the request went to has
\* been replaced since.
Frame(f, calls, aug, step, result, name, req) ==
    [f |-> f, calls |-> calls, aug |-> aug, step |-> step, result |-> result,
     name |-> name, req |-> req, ginst |-> NoInst, stale |-> FALSE]

\* The fields of MCPClient an asynchronous method reads and writes while
\* it runs, with the activation stack of the 'line' handler running it.
\* ok: the value of the last setLLMProvider call; reinit: whether
\* setLLMProvider has replaced the provider instance.
Client(conv, prov, inst, model, sys, max, stack, clock, nextId, log, catalog) ==
    [conv |-> conv, prov |-> prov, inst |-> inst, model |-> model, sys |-> sys,
     max |-> max, stack |-> stack, clock |-> clock, nextId |-> nextId,
     trimmed |-> log, tools |-> catalog, ok |-> TRUE, reinit |-> FALSE]

\* A push that would put the message in front of the history.
PushFront(st, m) == [st EXCEPT !.conv = <<m>> \o st.conv]
\* this.conversation.push(m)
Push(st, m) == [st EXCEPT !.conv = Append(st.conv, m)]
\* this._trimConversationHistory(), with the number of removed messages
\* its log line reports.
NumToRemove(conv, max) == IF max > 0 /\ Len(conv) > max THEN Len(conv) - max ELSE 0
Trim(st) ==
    [st EXCEPT !.conv = TrimConversationHistory(st.conv, st.max),
               !.trimmed = IF NumToRemove(st.conv, st.max) > 0
                           THEN NumToRemove(st.conv, st.max) ELSE st.trimmed]
PushFrame(st, fr) == [st EXCEPT !.stack = Append(st.stack, fr)]
PopFrame(st) == [st EXCEPT !.stack = SubSeq(st.stack, 1, Len(st.stack) - 1)]
Top(st) == st.stack[Len(st.stack)]

\* Whether HUGGINGFACE_MODEL and HUGGINGFACE_PARTNER_NAME are set in the
\* environment (they are not).
EnvHuggingFace == FALSE

\* MCPClient.setLLMProvider.  m = "" stands for no model name given.
SetLLMProvider(st, p, m, partner) ==
    LET cleared == [st EXCEPT !.inst = NoInst, !.model = "null", !.reinit = TRUE]
    IN IF p \notin Providers THEN [cleared EXCEPT !.ok = FALSE]
       ELSE IF p \notin ApiKeys THEN [cleared EXCEPT !.ok = FALSE]
       ELSE IF p = "huggingface" /\ (m = "" \/ partner = "") THEN [cleared EXCEPT !.ok = FALSE]
       ELSE IF p = "huggingface" /\ partner \notin HF_PARTNER_URL_SEGMENTS
            THEN [cleared EXCEPT !.ok = FALSE]
       ELSE LET d == IF m = "" THEN "default" ELSE m
            IN [cleared EXCEPT !.inst = NewProvider(p, d, st.sys, st.conv, st.tools),
                               !.model = d, !.prov = p, !.ok = TRUE]

\* MCPClient.setLLMProvider with the outcome of the adapter's initialize:
\* the try block sees what the constructor returns or throws.
SetLLMProviderStarting(st, p, m, partner, starts) ==
    LET done == SetLLMProvider(st, p, m, partner)
    IN IF done.ok
       THEN [done EXCEPT !.inst = NewProviderStarting(p, done.model, st.sys, st.conv, st.tools,
                                                      starts)]
       ELSE done

MissingInstanceContinuation == "Error: LLM Provider instance is missing for continuation."

\* ------------------------------------------- extractToolCalls of the adapters
\* The argument strings of a tool call in a chat-completions reply: a JSON
\* object, a string that is no JSON, and the JSON text null.
ArgumentStrings == {WellFormed, Malformed, NullText}
\* The input of a tool_use block or the args of a functionCall part: an
\* object the SDK has already decoded, or none.
ArgumentObjects == {"object", "absent"}

\* One tool call of a reply, as the provider's API gives it.
RawCall(k, name, arguments) ==
    [id |-> [n |-> "call", t |-> k], name |-> name, type |-> "function", arguments |-> arguments]
ExtractedCall(id, name, args) == [id |-> id, name |-> name, args |-> args]
\* The outcome of extractToolCalls: the list it returns, null, or
\* threw = TRUE when an exception leaves it.
Returned(calls) == [done |-> TRUE, threw |-> FALSE, null |-> FALSE, calls |-> calls]
ReturnedNull == [done |-> TRUE, threw |-> FALSE, null |-> TRUE, calls |-> << >>]
Thrown == [done |-> TRUE, threw |-> TRUE, null |-> FALSE, calls |-> << >>]
\* `list.length > 0 ? list : null`
NonEmptyOrNull(calls) == IF calls # << >> THEN Returned(calls) ELSE ReturnedNull

RECURSIVE ValidToolCalls(_)
\* The loop of OpenAIProvider.extractToolCalls: a call whose arguments do
\* not parse is logged and skipped.
ValidToolCalls(raw) ==
    IF raw = << >> THEN << >>
    ELSE LET tc == Head(raw)
             parsed == JSONParse(tc.arguments)
         IN (IF parsed.ok /\ tc.type = "function"
             THEN <<ExtractedCall(tc.id, tc.name, parsed.value)>> ELSE << >>)
            \o ValidToolCalls(Tail(raw))

OpenAIExtractToolCalls(raw) == NonEmptyOrNull(ValidToolCalls(raw))
DeepSeekExtractToolCalls(raw) == NonEmptyOrNull(ValidToolCalls(raw))

\* HuggingFaceProvider.extractToolCalls: JSON.parse inside map() with no
\* try/catch, then a filter on args !== null.
HuggingFaceExtractToolCalls(raw) ==
    IF \E k \in 1..Len(raw) : ~JSONParse(raw[k].arguments).ok
    THEN Thrown
    ELSE Returned(SelectSeq([ k \in 1..Len(raw) |->
                               ExtractedCall(raw[k].id, raw[k].name,
                                             JSONParse(raw[k].arguments).value) ],
                            LAMBDA c : c.args # "null"))

\* AnthropicProvider.extractToolCalls: args = input || {}.
AnthropicExtractToolCalls(raw) ==
    NonEmptyOrNull([ k \in 1..Len(raw) |->
                 ExtractedCall(raw[k].id, raw[k].name,
                               IF raw[k].arguments = "absent" THEN "empty" ELSE "object") ])

\* GoogleProvider.extractToolCalls: id = name + '_' + Date.now(),
\* args = functionCall.args || {}.
GoogleExtractToolCalls(raw) ==
    NonEmptyOrNull([ k \in 1..Len(raw) |->
                 ExtractedCall([n |-> raw[k].name, t |-> 0], raw[k].name,
                               IF raw[k].arguments = "absent" THEN "empty" ELSE "object") ])

\* has: whether the reply has the field the adapter reads the calls from
\* (message.tool_calls, content, candidates[0].content.parts).
AdapterExtractToolCalls(adapter, has, raw) ==
    IF ~has THEN ReturnedNull
    ELSE CASE adapter = "openai" -> OpenAIExtractToolCalls(raw)
           [] adapter = "deepseek" -> DeepSeekExtractToolCalls(raw)
           [] adapter = "huggingface" -> HuggingFaceExtractToolCalls(raw)
           [] adapter = "anthropic" -> AnthropicExtractToolCalls(raw)
           [] OTHER -> GoogleExtractToolCalls(raw)

NoResponse == [adapter |-> "none", has |-> FALSE, tool_calls |-> << >>]
NotFormatted == [done |-> FALSE, msgs |-> << >>]
NotConverted == [done |-> FALSE, text |-> "", img |-> NoImg]
DEFAULT_IMAGE_ANALYSIS_PROMPT_SUFFIX == "Please analyze this image."
\* A text prompt, by the parts of its template: the tool's name, the quoted
\* user request and the text after them ("" when the prompt ends with the
\* template's own words).
Prompt(tool, query, suffix) == [done |-> TRUE, tool |-> tool, query |-> query, suffix |-> suffix]
NoPrompt == [done |-> FALSE, tool |-> "", query |-> "", suffix |-> ""]
NotExtracted == [done |-> FALSE, threw |-> FALSE, null |-> FALSE, calls |-> << >>]
ImageFromTool == "[Image from tool. You can now analyze this image.]"

\* What sendMessage resolves to: the text of the reply and the names of
\* the tools it asks for; ok = FALSE: the promise rejects.
Response(ok, text, names) == [ok |-> ok, text |-> text, names |-> names]

\* extractToolCalls of the current instance on a reply of provider `to`.
\* OpenAI-compatible and Anthropic replies carry the ids the API issued
\* (taken fresh); GoogleProvider builds name + '_' + Date.now().  Another
\* provider's extractor finds no call in the reply.
ExtractToolCalls(st, resp, to) ==
    IF st.inst.kind # to THEN << >>
    ELSE IF to = "google"
    THEN [ i \in 1..Len(resp.names) |->
             [id |-> [n |-> resp.names[i], t |-> st.clock], name |-> resp.names[i]] ]
    ELSE [ i \in 1..Len(resp.names) |->
             [id |-> [n |-> "call", t |-> st.nextId + i - 1], name |-> resp.names[i]] ]

ExtractTextContent(st, resp, to) == IF st.inst.kind # to THEN "" ELSE resp.text

\* An extraction that would find an image in every tool result.
ExtractImageAlways(r) == PNG

\* MCPClient._extractImageFromMcpToolResult
ExtractImageFromMcpToolResult(r) ==
    IF r.kind = "content" /\ HasImg(r.img) THEN r.img ELSE NoImg

\* A continuation whose error would escape to the catch block of the tool
\* loop, which records an error result for the tool call a second time.
CatchContinueRethrown(st) ==
    LET loops == { k \in 1..Len(st.stack) : st.stack[k].f = "loop" }
    IN IF loops = {} THEN st
       ELSE Push(st, ToolMsg(Head(st.stack[MaxOf(loops)].calls), ErrorResult))

\* The last lines of continueConversation's catch block.
CatchContinue(st) ==
    IF /\ st.conv # << >>
       /\ Last(st.conv).role = "assistant"
       /\ StartsWithApiError(Last(st.conv).text)
    THEN st
    ELSE Push(st, AssistantMsg(ApiErrorContinuing, << >>))

\* The turn GoogleProvider.sendMessage adds to the session for a tool result.
FunctionResponseTurn(name, r) ==
    FM("function", "", << >>, <<FR(NoId, name, GoogleConvertToolResult(AsRaw(r)), NoImg)>>, << >>)
\* GoogleProvider.prepareImageMessageParts: [inlineData, text prompt].
ImageMessageTurn(img) == FM("user", ImagePrompt, << >>, << >>, <<img>>)

\* The handlers below take the client state `entry` they start from and
\* name it st once it is evaluated: Only({e(st) : st \in {entry}}) is e(entry).
Only(S) == CHOOSE x \in S : TRUE

RECURSIVE HandleLLMResponse(_, _, _)
RECURSIVE RunToolLoop(_, _)
RECURSIVE ContinueConversation(_)
RECURSIVE AfterContinue(_)
RECURSIVE Resume(_)

\* MCPClient.handleLLMResponse, up to its first await (lines 977-1017).
HandleLLMResponse(entry, resp, to) ==
    Only({
        IF st.inst = NoInst
        THEN Resume(Push(st, AssistantMsg(MissingInstance, << >>)))
        ELSE LET calls == ExtractToolCalls(st, resp, to)
                 st1 == [Push(st, AssistantMsg(ExtractTextContent(st, resp, to), calls))
                           EXCEPT !.nextId = IF to = "google" THEN st.nextId
                                             ELSE st.nextId + Len(calls)]
             IN IF calls # << >> THEN RunToolLoop(st1, calls) ELSE Resume(st1)
      : st \in {entry} })

\* A tool loop that would await a promise nothing settles.
RunToolLoopNeverSettled(st, calls) ==
    IF calls = << >> THEN Resume(st)
    ELSE PushFrame(st, Frame("never", calls, NoResult, "tool", NoResult, "", NoReq))

\* One iteration of `for (const toolCall of toolCalls)` up to its await:
\* a tool no server offers throws at once and goes through the catch block.
RunToolLoop(entry, calls) ==
    Only({
        IF calls = << >> THEN Resume(st)
        ELSE LET c == Head(calls)
             IN IF c.name \notin ToolNames
                THEN ContinueConversation(
                         PushFrame(Push(st, ToolMsg(c, ErrorResult)),
                                   Frame("loop", calls, NoResult, "cont", NoResult, "", NoReq)))
                ELSE PushFrame(st, Frame("loop", calls, NoResult, "tool", NoResult, "", NoReq))
      : st \in {entry} })

\* A continuation that would not be awaited: the loop goes on at once.
ContinueConversationSkipped(st) == AfterContinue(st)

\* A continuation that would append the image_mcp message of its tool
\* result before it sends the history.
ContinueConversationAugmentedFirst(st) ==
    LET img == ExtractImageFromMcpToolResult(Top(st).aug)
        st0 == IF HasImg(img)
               THEN Push(st, UserPartsMsg(<<ImagePart("image_mcp", img), TextPart(ImageFromTool)>>))
               ELSE st
        st1 == Trim(st0)
    IN PushFrame(st1, Frame("cc", << >>, NoResult, "plain", NoResult, "",
                            Req(st1.inst, FormatConversation(st1.inst, st1.conv))))

\* MCPClient.continueConversation, up to its first await.
ContinueConversation(entry) ==
    Only({
        IF st.inst = NoInst
        THEN AfterContinue(Push(st, AssistantMsg(MissingInstanceContinuation, << >>)))
        ELSE LET last == Last(st.conv)
                 img == ExtractImageFromToolResult(last.result)
             IN CASE st.prov = "openai" ->
                       IF st.conv # << >> /\ last.role = "tool" /\ HasImg(img)
                       THEN LET st1 == Trim(Push(st, UserPartsMsg(
                                           <<TextPart(ImagePrompt), ImagePart("image_url", img)>>)))
                            IN PushFrame(st1, Frame("cc", << >>, NoResult, "img", NoResult, "",
                                                    Req(st1.inst, FormatConversation(st1.inst, st1.conv))))
                       ELSE LET st1 == Trim(st)
                            IN PushFrame(st1, Frame("cc", << >>, NoResult, "plain", NoResult, "",
                                                    Req(st1.inst, FormatConversation(st1.inst, st1.conv))))
                  [] st.prov = "google" ->
                       IF st.conv = << >> \/ last.role # "tool"
                       THEN AfterContinue(CatchContinue(st))
                       ELSE PushFrame(st,
                              [Frame("cc", << >>, NoResult, "g1", last.result, last.name,
                                     Req(st.inst, Append(st.inst.session,
                                                         FunctionResponseTurn(last.name, last.result))))
                                 EXCEPT !.ginst = st.inst])
                  [] OTHER ->
                       LET st1 == Trim(st)
                       IN PushFrame(st1, Frame("cc", << >>, NoResult, "plain", NoResult, "",
                                               Req(st1.inst, FormatConversation(st1.inst, st1.conv))))
      : st \in {entry} })

\* A tool loop that would end after the continuation of a tool call.
AfterContinueDroppingRest(st) == Resume(PopFrame(st))

\* handleLLMResponse after continueConversation has returned (lines
\* 1055-1080): the image_mcp augmentation, then the next tool call.
AfterContinue(entry) ==
    Only({
        LET fr == Top(st)
            img == ExtractImageFromMcpToolResult(fr.aug)
            st1 == IF /\ fr.aug # NoResult
                      /\ st.prov \notin {"openai", "anthropic", "google"}
                      /\ HasImg(img)
                   THEN Push(st, UserPartsMsg(<<ImagePart("image_mcp", img), TextPart(ImageFromTool)>>))
                   ELSE st
        IN RunToolLoop(PopFrame(st1), Tail(fr.calls))
      : st \in {entry} })

\* handleLLMResponse returns to the activation that awaited it.
Resume(entry) ==
    Only({
        IF st.stack = << >> THEN st
        ELSE LET fr == Top(st)
                 img == ExtractImageFromToolResult(fr.result)
             IN IF fr.f = "pq" THEN PopFrame(st)
                ELSE IF fr.step = "g1" /\ HasImg(img)
                THEN [st EXCEPT !.stack[Len(st.stack)] =
                         [fr EXCEPT !.step = "g2",
                                    !.req = Req(fr.ginst, Append(fr.ginst.session, ImageMessageTurn(img)))]]
                ELSE AfterContinue(PopFrame(st))
      : st \in {entry} })

\* MCPClient.processQuery, up to its await.
ProcessQuery(st0, q) ==
    LET st1 == Push(st0, UserMsg(q))
        \* re-initialisation when the instance is missing
        m == IF st1.model # "null" THEN st1.model
             ELSE IF st1.prov = "huggingface" /\ ~EnvHuggingFace THEN "" ELSE "default"
        st2 == IF st1.inst # NoInst THEN st1
               ELSE IF st1.prov = "huggingface" /\ m = "" THEN [st1 EXCEPT !.ok = FALSE]
               ELSE SetLLMProvider(st1, st1.prov, m, IF EnvHuggingFace THEN "together" ELSE "")
    IN IF st2.inst = NoInst
       THEN Push(st2, AssistantMsg(ApiError, << >>))
       ELSE IF st2.prov = "google"
       THEN PushFrame(st2, Frame("pq", << >>, NoResult, "plain", NoResult, "",
                                 Req(st2.inst, Append(st2.inst.session,
                                                      FM("user", q, << >>, << >>, << >>)))))
       ELSE LET st3 == Trim(st2)
            IN PushFrame(st3, Frame("pq", << >>, NoResult, "plain", NoResult, "",
                                    Req(st3.inst, FormatConversation(st3.inst, st3.conv))))

\* ------------------------------------------------------------- the program
VARIABLES
    conversation,                  \* MCPClient.conversation
    llmProvider,                   \* MCPClient.config.llmProvider
    currentLlmProviderInstance,    \* MCPClient.currentLlmProviderInstance
    modelName,                     \* the display model name that is set, or "null"
    systemMessage,                 \* MCPClient.systemMessage
    maxConversationHistoryLength,  \* 0 for null
    tasks,                         \* activation stacks of the handlers in flight
    clock,                         \* last value Date.now() returned
    nextId,                        \* next tool-call id the provider APIs issue
    queries,                       \* queries entered so far
    overlaps,                      \* lines entered while a handler was in flight
    trimmed,                       \* messages removed according to the last trim log line
    rounds,                        \* replies with tool calls received so far
    switchedFrom,                  \* the provider an accepted /setprovider replaced, if that
                                   \* was the last line handled; "" otherwise
    tools,                         \* MCPClient.tools: the names of the tools loaded
    rejected,                      \* whether the last step was a sendMessage that rejected
    llmResponse,                   \* the reply handed to extractToolCalls on its own
    extracted,                     \* what that extractToolCalls call gave
    formatted,                     \* what formatConversation on its own gave
    mcpToolResult,                 \* the tool result handed to convertToolResult on its own
    converted,                     \* what that conversion gave
    imageAnalysisPromptSuffix,     \* the client's suffix for image prompts
    imagePrompt                    \* the text prompt of the last synthetic image turn built

vars == <<conversation, llmProvider, currentLlmProviderInstance, modelName, systemMessage,
          maxConversationHistoryLength, tasks, clock, nextId, queries, overlaps, trimmed, rounds,
          switchedFrom, tools, rejected, llmResponse, extracted, formatted,
          mcpToolResult, converted, imageAnalysisPromptSuffix, imagePrompt>>

\* The variables of the adapter functions run on their own.
alone ==
    <<llmResponse, extracted, formatted, mcpToolResult, converted, imageAnalysisPromptSuffix,
      imagePrompt>>

\* The client as the handler whose stack is `stack` sees it.
Now(stack) ==
    Client(conversation, llmProvider, currentLlmProviderInstance, modelName, systemMessage,
           maxConversationHistoryLength, stack, clock, nextId, trimmed, tools)

MarkStale(stack) == [ k \in 1..Len(stack) |-> [stack[k] EXCEPT !.stale = TRUE] ]
RemoveAt(s, i) == SubSeq(s, 1, i - 1) \o SubSeq(s, i + 1, Len(s))

\* The state a handler leaves behind when it reaches an await or ends.
\* i = 0: a handler that has just started.
Commit(reached, i) ==
  \E st \in {reached} :
    /\ conversation' = st.conv
    /\ llmProvider' = st.prov
    /\ currentLlmProviderInstance' = st.inst
    /\ modelName' = st.model
    /\ systemMessage' = st.sys
    /\ nextId' = st.nextId
    /\ trimmed' = st.trimmed
    /\ LET others == IF st.reinit THEN [ k \in 1..Len(tasks) |-> MarkStale(tasks[k]) ] ELSE tasks
       IN tasks' = IF i = 0
                   THEN (IF st.stack = << >> THEN others ELSE Append(others, st.stack))
                   ELSE IF st.stack = << >> THEN RemoveAt(others, i)
                   ELSE [others EXCEPT ![i] = st.stack]
    /\ UNCHANGED <<maxConversationHistoryLength, tools, alone>>

\* The state after the constructor: the configured provider is set up
\* with its default model and an empty history; no tool is loaded yet.
Init ==
    /\ conversation = << >>
    /\ llmProvider \in ApiKeys
    /\ currentLlmProviderInstance = NewProvider(llmProvider, "default", "sys0", << >>, {})
    /\ tools = {}
    /\ modelName = "default"
    /\ systemMessage = "sys0"
    /\ maxConversationHistoryLength \in HistoryBounds
    /\ tasks = << >>
    /\ clock = 0
    /\ nextId = 1
    /\ queries = 0
    /\ overlaps = 0
    /\ trimmed = 0
    /\ rounds = 0
    /\ switchedFrom = ""
    /\ rejected = FALSE
    /\ llmResponse = NoResponse
    /\ extracted = NotExtracted
    /\ formatted = NotFormatted
    /\ mcpToolResult = RawString("")
    /\ converted = NotConverted
    /\ imageAnalysisPromptSuffix = DEFAULT_IMAGE_ANALYSIS_PROMPT_SUFFIX
    /\ imagePrompt = NoPrompt

\* start(): MCPClient.loadTools fills this.tools and reconfigures the
\* provider instance; startCLI follows.
LoadTools ==
    /\ tools = {}
    /\ tools' = ToolNames
    /\ currentLlmProviderInstance' = Reconfigure(currentLlmProviderInstance, systemMessage, ToolNames)
    /\ rejected' = FALSE
    /\ UNCHANGED <<conversation, llmProvider, modelName, systemMessage,
                   maxConversationHistoryLength, tasks, clock, nextId, queries, overlaps,
                   trimmed, rounds, switchedFrom, alone>>

\* A line is entered while the number of handlers in flight is in busy:
\* startCLI has run, so the tools are loaded.  A run is followed up to the
\* end of its last query: no line is entered once MaxQueries queries have
\* been.
Arrives(busy) ==
    /\ tools # {}
    /\ Len(tasks) \in busy
    /\ queries < MaxQueries
    /\ tasks # << >> => overlaps < MaxOverlaps
    /\ overlaps' = IF tasks # << >> THEN overlaps + 1 ELSE overlaps
    /\ rejected' = FALSE

\* rl.on('line'): a query.
Query(busy) ==
    /\ Arrives(busy)
    /\ queries < MaxQueries
    /\ \E q \in QueryTexts : Commit(ProcessQuery(Now(<< >>), q), 0)
    /\ queries' = queries + 1
    /\ switchedFrom' = ""
    /\ UNCHANGED <<clock, rounds>>

\* rl.on('line'): /clear
Clear(busy) ==
    /\ Arrives(busy)
    /\ conversation' = << >>
    /\ switchedFrom' = ""
    /\ UNCHANGED <<llmProvider, currentLlmProviderInstance, modelName, systemMessage,
                   maxConversationHistoryLength, tasks, clock, nextId, queries, trimmed, rounds,
                   tools, alone>>

\* rl.on('line'): /setsystem <message>
SetSystem(busy) ==
    /\ Arrives(busy)
    /\ \E sys \in SystemMessages \ {systemMessage} :
         LET st == [Now(<< >>) EXCEPT !.sys = sys]
         IN IF llmProvider = "google"
            THEN Commit(SetLLMProvider(st, "google",
                                       IF modelName # "null" THEN modelName ELSE "default", ""), 0)
            ELSE Commit(st, 0)
    /\ switchedFrom' = ""
    /\ UNCHANGED <<clock, queries, rounds>>

\* rl.on('line'): /setprovider <name> [model] [partner], for the inputs
\* setLLMProvider accepts (it returns true).
SetProvider(busy) ==
    /\ Arrives(busy)
    /\ \E p \in ProviderNames, m \in ModelNames \cup {""}, partner \in PartnerNames \cup {""} :
         /\ p # "huggingface" => partner = ""
         /\ p = "huggingface" => (m # "" /\ partner # "")
         /\ SetLLMProvider(Now(<< >>), p, m, partner).ok
         /\ Commit(SetLLMProvider(Now(<< >>), p, m, partner), 0)
    /\ switchedFrom' = llmProvider
    /\ UNCHANGED <<clock, queries, rounds>>

\* rl.on('line'): /setprovider <name> [model] [partner], for the inputs
\* setLLMProvider rejects (it returns false): an unsupported name, a
\* provider whose API key is not set, a partner HuggingFaceProvider's
\* constructor throws on.
SetProviderRejected(busy) ==
    /\ Arrives(busy)
    /\ \E p \in ProviderNames, m \in ModelNames \cup {""}, partner \in PartnerNames \cup {""} :
         /\ p # "huggingface" => partner = ""
         /\ p = "huggingface" => (m # "" /\ partner # "")
         /\ ~SetLLMProvider(Now(<< >>), p, m, partner).ok
         /\ Commit(SetLLMProvider(Now(<< >>), p, m, partner), 0)
    /\ switchedFrom' = ""
    /\ UNCHANGED <<clock, queries, rounds>>

\* The replies a provider may give: a rejection, a text (possibly empty),
\* or tool calls while fewer than n replies have carried some.
ResponsesWithin(n) ==
    {Response(FALSE, "", << >>)}
    \cup {Response(TRUE, t, << >>) : t \in {"", "a"}}
    \cup (IF rounds < n
          THEN {Response(TRUE, "", ns) : ns \in {<<"shot">>, <<"ghost">>, <<"shot", "shot">>}}
          ELSE {})

Responses == ResponsesWithin(MaxToolRounds)

\* The turn the SDK's chat session records for a reply.
ModelTurn(resp) ==
    FM("model", resp.text, FunctionCalls(resp.names), << >>, << >>)

\* `await sendMessage(...)` of the handler i settles, with one of the
\* replies of at most n tool rounds.
LLMRespondWithin(i, n) ==
    /\ i \in 1..Len(tasks)
    /\ Last(tasks[i]).f \in {"pq", "cc"}
    /\ \E resp \in ResponsesWithin(n), now \in {clock, clock + 1} :
         LET fr == Last(tasks[i])
             to == fr.req.to
             session == Append(fr.req.msgs, ModelTurn(resp))
             replied == resp.ok /\ to = "google"
             fr1 == [fr EXCEPT !.req = NoReq,
                               !.ginst = IF replied /\ fr.f = "cc"
                                         THEN [fr.ginst EXCEPT !.session = session]
                                         ELSE fr.ginst]
             st0 == Now([tasks[i] EXCEPT ![Len(tasks[i])] = fr1])
             st1 == [st0 EXCEPT !.clock = now,
                                !.inst = IF replied /\ ~fr.stale /\ st0.inst.kind = "google"
                                         THEN [st0.inst EXCEPT !.session = session]
                                         ELSE st0.inst]
         IN /\ now <= MaxClock
            \* a model calls tools only when the request declares some
            /\ resp.names # << >> => fr.req.tools # {}
            /\ now # clock => (resp.ok /\ resp.names # << >> /\ to = "google")
            /\ clock' = now
            /\ rounds' = IF resp.names # << >> THEN rounds + 1 ELSE rounds
            /\ rejected' = ~resp.ok
            /\ IF resp.ok
               THEN Commit(HandleLLMResponse(st1, resp, to), i)
               ELSE IF fr.f = "pq"
               THEN Commit(PopFrame(Push(st1, AssistantMsg(ApiError, << >>))), i)
               ELSE Commit(AfterContinue(PopFrame(CatchContinue(st1))), i)
    /\ UNCHANGED <<queries, overlaps, switchedFrom>>

LLMRespond(i) == LLMRespondWithin(i, MaxToolRounds)

\* `await this.callTool(...)` of the handler i settles.
ToolReturn(i) ==
    /\ i \in 1..Len(tasks)
    /\ Last(tasks[i]).f = "loop"
    /\ \E r \in ToolResults \cup {NoResult} :
         LET fr == Last(tasks[i])
             c == Head(fr.calls)
             \* r = NoResult: callTool throws, the catch block records the error
             fr1 == [fr EXCEPT !.aug = r, !.step = "cont"]
             st0 == Now([tasks[i] EXCEPT ![Len(tasks[i])] = fr1])
             st1 == Push(st0, ToolMsg(c, IF r = NoResult THEN ErrorResult ELSE r))
         IN Commit(ContinueConversation(st1), i)
    /\ rejected' = FALSE
    /\ UNCHANGED <<clock, queries, overlaps, rounds, switchedFrom>>

\* Input lines are entered at the prompt only: no handler is in flight
\* when a line arrives.
Next ==
    \/ LoadTools
    \/ Query({0})
    \/ Clear({0})
    \/ SetSystem({0})
    \/ SetProvider({0})
    \/ SetProviderRejected({0})
    \/ \E i \in 1..MaxTasks : LLMRespond(i)
    \/ \E i \in 1..MaxTasks : ToolReturn(i)

Spec == Init /\ [][Next]_vars

\* Every request to a provider and every tool invocation returns or fails:
\* an awaited promise settles, and the handler awaiting it then runs on.
Settles ==
    /\ \A i \in 1..MaxTasks : WF_vars(LLMRespond(i))
    /\ \A i \in 1..MaxTasks : WF_vars(ToolReturn(i))
\* The inputs that are queries, each entered once the handler of the one
\* before has returned.
NextLive ==
    \/ LoadTools
    \/ Query({0})
    \/ \E i \in 1..MaxTasks : LLMRespond(i)
    \/ \E i \in 1..MaxTasks : ToolReturn(i)
SpecLive == Init /\ [][NextLive]_vars /\ Settles

\* readline emits 'line' whenever a line is entered; the asynchronous
\* handler of an earlier line may still be awaiting.
NextOverlap ==
    \/ LoadTools
    \/ Query(0..(MaxTasks - 1))
    \/ Clear(1..(MaxTasks - 1))
    \/ SetSystem(1..(MaxTasks - 1))
    \/ SetProvider(1..(MaxTasks - 1))
    \/ SetProviderRejected(1..(MaxTasks - 1))
    \/ \E i \in 1..MaxTasks : LLMRespond(i)
    \/ \E i \in 1..MaxTasks : ToolReturn(i)

SpecOverlap == Init /\ [][NextOverlap]_vars

\* Turns whose continuations call tools again, under the stateful-session
\* provider: the client after start() and `/setprovider google`.
InitNested ==
    /\ conversation = << >>
    /\ llmProvider = "google"
    /\ currentLlmProviderInstance = NewProvider("google", "default", "sys0", << >>, ToolNames)
    /\ tools = ToolNames
    /\ modelName = "default"
    /\ systemMessage = "sys0"
    /\ maxConversationHistoryLength = 0
    /\ tasks = << >>
    /\ clock = 0
    /\ nextId = 1
    /\ queries = 0
    /\ overlaps = 0
    /\ trimmed = 0
    /\ rounds = 0
    /\ switchedFrom = ""
    /\ rejected = FALSE
    /\ llmResponse = NoResponse
    /\ extracted = NotExtracted
    /\ formatted = NotFormatted
    /\ mcpToolResult = RawString("")
    /\ converted = NotConverted
    /\ imageAnalysisPromptSuffix = DEFAULT_IMAGE_ANALYSIS_PROMPT_SUFFIX
    /\ imagePrompt = NoPrompt

NextNested ==
    \/ Query({0})
    \/ \E i \in 1..MaxTasks : LLMRespondWithin(i, MaxNestedRounds)
    \/ \E i \in 1..MaxTasks : ToolReturn(i)

SpecNested == InitNested /\ [][NextNested]_vars

\* The same turns under a provider the image_mcp augmentation applies to:
\* the client after start() and `/setprovider huggingface custom together`.
InitAugment ==
    /\ conversation = << >>
    /\ llmProvider = "huggingface"
    /\ currentLlmProviderInstance = NewProvider("huggingface", "custom", "sys0", << >>, ToolNames)
    /\ tools = ToolNames
    /\ modelName = "custom"
    /\ systemMessage = "sys0"
    /\ maxConversationHistoryLength = 0
    /\ tasks = << >>
    /\ clock = 0
    /\ nextId = 1
    /\ queries = 0
    /\ overlaps = 0
    /\ trimmed = 0
    /\ rounds = 0
    /\ switchedFrom = ""
    /\ rejected = FALSE
    /\ llmResponse = NoResponse
    /\ extracted = NotExtracted
    /\ formatted = NotFormatted
    /\ mcpToolResult = RawString("")
    /\ converted = NotConverted
    /\ imageAnalysisPromptSuffix = DEFAULT_IMAGE_ANALYSIS_PROMPT_SUFFIX
    /\ imagePrompt = NoPrompt

SpecAugment == InitAugment /\ [][NextNested]_vars

\* extractToolCalls on its own: every adapter on every reply of up to
\* MaxCalls tool calls, with the arguments its API can carry.
RawResponses(adapter) ==
    LET arguments == IF adapter \in {"anthropic", "google"}
                     THEN ArgumentObjects ELSE ArgumentStrings
    IN UNION { { [ k \in 1..n |-> RawCall(k, "shot", f[k]) ] : f \in [1..n -> arguments] }
               : n \in 0..MaxCalls }

InitExtract ==
    /\ conversation = << >>
    /\ llmProvider = "anthropic"
    /\ currentLlmProviderInstance = NewProvider(llmProvider, "default", "sys0", << >>, ToolNames)
    /\ tools = ToolNames
    /\ modelName = "default"
    /\ systemMessage = "sys0"
    /\ maxConversationHistoryLength = 0
    /\ tasks = << >>
    /\ clock = 0
    /\ nextId = 1
    /\ queries = 0
    /\ overlaps = 0
    /\ trimmed = 0
    /\ rounds = 0
    /\ switchedFrom = ""
    /\ rejected = FALSE
    /\ \E adapter \in Providers :
          \/ llmResponse = [adapter |-> adapter, has |-> FALSE, tool_calls |-> << >>]
          \/ \E raw \in RawResponses(adapter) :
                 llmResponse = [adapter |-> adapter, has |-> TRUE, tool_calls |-> raw]
    /\ extracted = NotExtracted
    /\ formatted = NotFormatted
    /\ mcpToolResult = RawString("")
    /\ converted = NotConverted
    /\ imageAnalysisPromptSuffix = DEFAULT_IMAGE_ANALYSIS_PROMPT_SUFFIX
    /\ imagePrompt = NoPrompt

\* this.currentLlmProviderInstance.extractToolCalls(llmResponse)
ExtractStep ==
    /\ ~extracted.done
    /\ llmResponse # NoResponse
    /\ extracted' = AdapterExtractToolCalls(llmResponse.adapter, llmResponse.has,
                                            llmResponse.tool_calls)
    /\ UNCHANGED <<conversation, llmProvider, currentLlmProviderInstance, modelName,
                   systemMessage, maxConversationHistoryLength, tasks, clock, nextId, queries,
                   overlaps, trimmed, rounds, switchedFrom, tools, rejected, llmResponse,
                   formatted, mcpToolResult, converted, imageAnalysisPromptSuffix, imagePrompt>>

SpecExtract == InitExtract /\ [][ExtractStep]_vars

\* formatConversation on its own: every adapter on every history of up to
\* MaxFormatLen of these messages.  The assistant message with two calls of
\* the same tool, and a tool message for each of the calls.
FirstCall == [id |-> [n |-> "call", t |-> 1], name |-> "shot"]
SecondCall == [id |-> [n |-> "call", t |-> 2], name |-> "shot"]
JsonResult(text) == [kind |-> "content", text |-> text, img |-> NoImg]
FormatMessages ==
    { UserMsg("q"),
      SystemMsg("sys1"),
      AssistantMsg("a", << >>),
      AssistantMsg("", <<FirstCall, SecondCall>>),
      ToolMsg(FirstCall, JsonResult(WellFormed)),
      ToolMsg(SecondCall, JsonResult(OtherJson)),
      UserPartsMsg(<<TextPart("q"), ImagePart("image_mcp", PNG)>>),
      UserPartsMsg(<<ImagePart("image_url", SVG)>>),
      ToolMsg(FirstCall, [kind |-> "content", text |-> "", img |-> PNG]) }
FormatHistories == UNION { [1..n -> FormatMessages] : n \in 0..MaxFormatLen }

InitFormat ==
    /\ conversation \in FormatHistories
    /\ llmProvider \in Providers
    /\ currentLlmProviderInstance = NewProvider(llmProvider, "default", "sys0", << >>, ToolNames)
    /\ tools = ToolNames
    /\ modelName = "default"
    /\ systemMessage = "sys0"
    /\ maxConversationHistoryLength = 0
    /\ tasks = << >>
    /\ clock = 0
    /\ nextId = 1
    /\ queries = 0
    /\ overlaps = 0
    /\ trimmed = 0
    /\ rounds = 0
    /\ switchedFrom = ""
    /\ rejected = FALSE
    /\ llmResponse = NoResponse
    /\ extracted = NotExtracted
    /\ formatted = NotFormatted
    /\ mcpToolResult = RawString("")
    /\ converted = NotConverted
    /\ imageAnalysisPromptSuffix = DEFAULT_IMAGE_ANALYSIS_PROMPT_SUFFIX
    /\ imagePrompt = NoPrompt

\* this.currentLlmProviderInstance.formatConversation(this.conversation)
FormatStep ==
    /\ ~formatted.done
    /\ formatted' = [done |-> TRUE,
                     msgs |-> FormatConversation(currentLlmProviderInstance, conversation)]
    /\ conversation' = HistoryAfterFormat(currentLlmProviderInstance, conversation)
    /\ UNCHANGED <<llmProvider, currentLlmProviderInstance, modelName,
                   systemMessage, maxConversationHistoryLength, tasks, clock, nextId, queries,
                   overlaps, trimmed, rounds, switchedFrom, tools, rejected, llmResponse,
                   extracted, mcpToolResult, converted, imageAnalysisPromptSuffix, imagePrompt>>

SpecFormat == InitFormat /\ [][FormatStep]_vars

\* setLLMProvider on its own: every provider name, over every history,
\* with both outcomes of the adapter's initialize.
SwitchAccepted ==
    /\ tasks = << >>
    /\ \E p \in ProviderNames, m \in ModelNames \cup {""}, partner \in PartnerNames \cup {""},
          starts \in BOOLEAN :
         /\ p # "huggingface" => partner = ""
         /\ SetLLMProviderStarting(Now(<< >>), p, m, partner, starts).ok
         /\ Commit(SetLLMProviderStarting(Now(<< >>), p, m, partner, starts), 0)
    /\ switchedFrom' = llmProvider
    /\ rejected' = FALSE
    /\ UNCHANGED <<clock, queries, overlaps, rounds>>

SwitchRejected ==
    /\ tasks = << >>
    /\ \E p \in ProviderNames, m \in ModelNames \cup {""}, partner \in PartnerNames \cup {""},
          starts \in BOOLEAN :
         /\ p # "huggingface" => partner = ""
         /\ ~SetLLMProviderStarting(Now(<< >>), p, m, partner, starts).ok
         /\ Commit(SetLLMProviderStarting(Now(<< >>), p, m, partner, starts), 0)
    /\ switchedFrom' = ""
    /\ rejected' = FALSE
    /\ UNCHANGED <<clock, queries, overlaps, rounds>>

NextSwitch == SwitchAccepted \/ SwitchRejected
SpecSwitch == InitFormat /\ [][NextSwitch]_vars

\* convertToolResult on its own: every adapter on a string and on every
\* content list of up to MaxBlocks of these blocks.
ConvertBlocks ==
    { TextBlock("plain"), TextBlock(WellFormed), TextBlock(OtherJson),
      DataBlock(DataObject), DataBlock(DataScalar), DataBlock(Undefined),
      ImageBlock(PNG), ResourceBlock }
RawResults ==
    {RawString("plain"), RawString(WellFormed)}
    \cup { RawContent(b) : b \in UNION { [1..n -> ConvertBlocks] : n \in 0..MaxBlocks } }

\* The text and the image of the tool result entry an adapter makes.
AdapterConvertToolResult(kind, t) ==
    CASE kind = "anthropic" -> AnthropicConvertToolResult(t)
      [] kind \in {"openai", "huggingface"} ->
            [text |-> ConvertToolResultForOpenAI(t), img |-> NoImg]
      [] kind = "deepseek" -> [text |-> ConvertToolResultForDeepSeek(t), img |-> NoImg]
      [] OTHER -> [text |-> GoogleConvertToolResult(t), img |-> NoImg]

InitConvert ==
    /\ mcpToolResult \in RawResults
    /\ llmProvider \in Providers
    /\ currentLlmProviderInstance = NewProvider(llmProvider, "default", "sys0", << >>, ToolNames)
    /\ conversation = << >>
    /\ tools = ToolNames
    /\ modelName = "default"
    /\ systemMessage = "sys0"
    /\ maxConversationHistoryLength = 0
    /\ tasks = << >>
    /\ clock = 0
    /\ nextId = 1
    /\ queries = 0
    /\ overlaps = 0
    /\ trimmed = 0
    /\ rounds = 0
    /\ switchedFrom = ""
    /\ rejected = FALSE
    /\ llmResponse = NoResponse
    /\ extracted = NotExtracted
    /\ formatted = NotFormatted
    /\ converted = NotConverted
    /\ imageAnalysisPromptSuffix = DEFAULT_IMAGE_ANALYSIS_PROMPT_SUFFIX
    /\ imagePrompt = NoPrompt

\* this.currentLlmProviderInstance.convertToolResult(mcpToolResult, toolName)
ConvertStep ==
    /\ ~converted.done
    /\ converted' = [done |-> TRUE,
                     text |-> AdapterConvertToolResult(llmProvider, mcpToolResult).text,
                     img |-> AdapterConvertToolResult(llmProvider, mcpToolResult).img]
    /\ UNCHANGED <<conversation, llmProvider, currentLlmProviderInstance, modelName,
                   systemMessage, maxConversationHistoryLength, tasks, clock, nextId, queries,
                   overlaps, trimmed, rounds, switchedFrom, tools, rejected, llmResponse,
                   extracted, formatted, mcpToolResult, imageAnalysisPromptSuffix, imagePrompt>>

SpecConvert == InitConvert /\ [][ConvertStep]_vars

\* The two-step image flow's prompt on its own: the history ends with a
\* tool result that holds an image, after the assistant message that asked
\* for it and, in some histories, the user's request.
Suffixes == {DEFAULT_IMAGE_ANALYSIS_PROMPT_SUFFIX, "s1", "s2"}
ScanCall == [id |-> [n |-> "call", t |-> 3], name |-> "scan"]
ImageHistories ==
    { u \o <<AssistantMsg("", <<c>>), ToolMsg(c, [kind |-> "content", text |-> "r", img |-> PNG])>> :
        u \in {<< >>, <<UserMsg("q")>>, <<UserMsg("q2")>>}, c \in {FirstCall, ScanCall} }

InitSuffix ==
    /\ conversation \in ImageHistories
    /\ llmProvider \in {"openai", "google"}
    /\ currentLlmProviderInstance = NewProvider(llmProvider, "default", "sys0", << >>, ToolNames)
    /\ tools = ToolNames
    /\ modelName = "default"
    /\ systemMessage = "sys0"
    /\ maxConversationHistoryLength = 0
    /\ tasks = << >>
    /\ clock = 0
    /\ nextId = 1
    /\ queries = 0
    /\ overlaps = 0
    /\ trimmed = 0
    /\ rounds = 0
    /\ switchedFrom = ""
    /\ rejected = FALSE
    /\ llmResponse = NoResponse
    /\ extracted = NotExtracted
    /\ formatted = NotFormatted
    /\ mcpToolResult = RawString("")
    /\ converted = NotConverted
    /\ imageAnalysisPromptSuffix \in Suffixes
    /\ imagePrompt = NoPrompt

\* /setimagepromptsuffix <suffix>
SetImagePromptSuffix(newSuffix) ==
    /\ imageAnalysisPromptSuffix' = newSuffix
    /\ UNCHANGED <<conversation, llmProvider, currentLlmProviderInstance, modelName,
                   systemMessage, maxConversationHistoryLength, tasks, clock, nextId, queries,
                   overlaps, trimmed, rounds, switchedFrom, tools, rejected, llmResponse,
                   extracted, formatted, mcpToolResult, converted, imagePrompt>>

\* The user request the prompt quotes: the last string user message before
\* the assistant message that called the tool, when that message is not
\* the first of the history.
OriginalUserQuery(h, default) ==
    LET users == { i \in 1..(Len(h) - 2) : h[i].role = "user" /\ ~IsArrayContent(h[i]) }
    IN IF users = {} THEN default ELSE h[MaxOf(users)].text

\* The text prompt of the synthetic image turn: continueConversation's
\* imagePrompt for OpenAI, GoogleProvider.prepareImageMessageParts'
\* textForImagePrompt for Google.
ImagePromptStep ==
    /\ imagePrompt' =
          IF llmProvider = "openai"
          THEN Prompt(Last(conversation).name,
                      OriginalUserQuery(conversation, "Describe the image."),
                      imageAnalysisPromptSuffix)
          ELSE Prompt(Last(conversation).name, OriginalUserQuery(conversation, ""), "")
    /\ UNCHANGED <<conversation, llmProvider, currentLlmProviderInstance, modelName,
                   systemMessage, maxConversationHistoryLength, tasks, clock, nextId, queries,
                   overlaps, trimmed, rounds, switchedFrom, tools, rejected, llmResponse,
                   extracted, formatted, mcpToolResult, converted, imageAnalysisPromptSuffix>>

NextSuffix ==
    \/ \E newSuffix \in Suffixes : SetImagePromptSuffix(newSuffix)
    \/ ImagePromptStep
SpecSuffix == InitSuffix /\ [][NextSuffix]_vars

\* _trimConversationHistory on its own: every history of up to MaxLen
\* messages under every bound, trimmed once.
TrimMessages == {UserMsg("q"), AssistantMsg("a", << >>), AssistantMsg(ApiError, << >>)}
Histories == UNION { [1..n -> TrimMessages] : n \in 0..MaxLen }

InitTrim ==
    /\ conversation \in Histories
    /\ maxConversationHistoryLength \in 0..MaxLen
    /\ llmProvider = "anthropic"
    /\ currentLlmProviderInstance = NewProvider(llmProvider, "default", "sys0", << >>, ToolNames)
    /\ tools = ToolNames
    /\ modelName = "default"
    /\ systemMessage = "sys0"
    /\ tasks = << >>
    /\ clock = 0
    /\ nextId = 1
    /\ queries = 0
    /\ overlaps = 0
    /\ trimmed = 0
    /\ rounds = 0
    /\ switchedFrom = ""
    /\ rejected = FALSE
    /\ llmResponse = NoResponse
    /\ extracted = NotExtracted
    /\ formatted = NotFormatted
    /\ mcpToolResult = RawString("")
    /\ converted = NotConverted
    /\ imageAnalysisPromptSuffix = DEFAULT_IMAGE_ANALYSIS_PROMPT_SUFFIX
    /\ imagePrompt = NoPrompt

\* this._trimConversationHistory()
TrimStep ==
    /\ Commit(Trim(Now(<< >>)), 0)
    /\ UNCHANGED <<clock, queries, overlaps, rounds, switchedFrom, rejected>>

SpecTrim == InitTrim /\ [][TrimStep]_vars

\* ------------------------------------------------------------ properties
\* The requests awaiting a reply.
InFlight == { Last(tasks[i]).req : i \in 1..Len(tasks) } \ {NoReq}

\* The tool calls of assistant messages before position i of h that carry
\* the tool_call_id of the message at i.
MatchingCalls(h, i) ==
    UNION { { <<j, k>> : k \in { n \in 1..Len(h[j].tool_calls) :
                                   h[j].tool_calls[n].id = h[i].tool_call_id } }
            : j \in 1..(i - 1) }

\* C1: in every reachable state, the tool_call_id of every tool message of
\* the history is the id of exactly one tool call of an assistant message
\* that precedes it.
C1_ToolMessagesPaired ==
    \A i \in 1..Len(conversation) :
        conversation[i].role = "tool" => Cardinality(MatchingCalls(conversation, i)) = 1

ResultIds(m) == { m.results[k].id : k \in 1..Len(m.results) }

\* C2: in every request sent to Anthropic, each assistant turn that holds
\* tool_use blocks is followed at once by a user turn that holds a
\* tool_result for every one of its tool_use ids.
C2_AnthropicToolUsePaired ==
    \A r \in InFlight :
        r.to = "anthropic" =>
            \A k \in 1..Len(r.msgs) :
                (r.msgs[k].role = "assistant" /\ r.msgs[k].calls # << >>) =>
                    /\ k < Len(r.msgs)
                    /\ r.msgs[k + 1].role = "user"
                    /\ SeqSet(r.msgs[k].calls) \subseteq ResultIds(r.msgs[k + 1])

\* C3: no input line is handled while the handler of an earlier line is
\* still in flight.
C3_RunToCompletion == overlaps = 0

\* C4: a /setprovider that setLLMProvider rejects leaves the provider
\* instance and the model name as they were.
C4_RejectedSwitchKeepsProvider ==
    [][SetProviderRejected({0}) =>
          /\ currentLlmProviderInstance' = currentLlmProviderInstance
          /\ modelName' = modelName]_vars

\* C5: in every request to an OpenAI-compatible provider or to Google, a
\* user turn that carries an image never follows a tool-result turn
\* directly: the model's reply to the tool result comes in between.
C5_AckBeforeImage ==
    \A r \in InFlight :
        r.to \in {"openai", "huggingface", "google"} =>
            \A k \in 2..Len(r.msgs) :
                (r.msgs[k].role = "user" /\ r.msgs[k].imgs # << >>) =>
                    r.msgs[k - 1].role \notin {"tool", "function"}

\* A step that sends a request; a step that constructs a GoogleProvider.
Sends == InFlight' \ InFlight # {}
SeedsSession ==
    /\ SetProvider({0}) \/ SetSystem({0}) \/ Query({0})
    /\ currentLlmProviderInstance' # currentLlmProviderInstance
    /\ currentLlmProviderInstance'.kind = "google"

\* C6: with a bound configured, the history is no longer than the bound
\* whenever a request is sent or a chat session is seeded, whatever the
\* provider.
C6_TrimmedBeforeAdapter ==
    [][(maxConversationHistoryLength > 0 /\ (Sends \/ SeedsSession)) =>
          Len(conversation') <= maxConversationHistoryLength]_vars

\* C7: when the history holds L messages and the positive bound is N < L,
\* one trim removes exactly the L - N oldest messages: the history is then
\* the last N messages of the old one in their order, and the trim reports
\* L - N removed messages.
C7_TrimKeepsLastN ==
    [][(TrimStep /\ maxConversationHistoryLength > 0
                 /\ Len(conversation) > maxConversationHistoryLength) =>
          LET L == Len(conversation)
              N == maxConversationHistoryLength
          IN /\ Len(conversation') = N
             /\ \A k \in 1..N : conversation'[k] = conversation[L - N + k]
             /\ trimmed' = L - N]_vars

\* A trim has removed more than one message and left more than one.
C7_Witness ==
    /\ trimmed > 1
    /\ Len(conversation) = maxConversationHistoryLength
    /\ maxConversationHistoryLength > 1
    /\ conversation[1] # conversation[2]

\* Whether a history message has anything an adapter can put in a turn.
HasContent(m) == m.role # "assistant" \/ m.text # "" \/ m.tool_calls # << >>

\* Whether the request turn t conveys the history message m: the same role
\* and text and the same tool calls, or a tool result for the same call.
Conveys(m, t) ==
    CASE m.role = "user" ->
           /\ t.role = "user"
           /\ t.text = (IF IsArrayContent(m)
                        THEN (IF PartsText(m.parts) = << >> THEN "" ELSE PartsText(m.parts)[1])
                        ELSE m.text)
      [] m.role = "assistant" ->
           /\ t.role \in {"assistant", "model"}
           /\ t.text = m.text
           /\ t.calls \in {CallIds(m.tool_calls), FunctionCalls(CallNames(m.tool_calls))}
      [] OTHER ->
           \E k \in 1..Len(t.results) :
               /\ t.results[k].name = m.name
               /\ t.results[k].id \in {m.tool_call_id, NoId}

RECURSIVE ConveyedFrom(_, _, _, _)
\* Whether the messages i.. of h are conveyed, in their order, by the turns
\* k.. of msgs (several tool results may share one turn).
ConveyedFrom(h, i, msgs, k) ==
    IF i > Len(h) THEN TRUE
    ELSE IF ~HasContent(h[i]) THEN ConveyedFrom(h, i + 1, msgs, k)
    ELSE LET S == { j \in k..Len(msgs) : Conveys(h[i], msgs[j]) }
             j == CHOOSE x \in S : \A y \in S : x <= y
         IN /\ S # {}
            /\ ConveyedFrom(h, i + 1, msgs, IF h[i].role = "tool" THEN j ELSE j + 1)

\* C8: the first request after an accepted /setprovider conveys, in order,
\* every message of the history (as far as the bound keeps it) and the new
\* user message.
C8_SwitchConveysHistory ==
    [][(switchedFrom # "" /\ Query({0})) =>
          \E r \in InFlight' :
              ConveyedFrom(TrimConversationHistory(conversation', maxConversationHistoryLength),
                           1, r.msgs, 1)]_vars

VisionProviders == {"openai", "anthropic", "google"}
\* The images the tool messages of a history hold.
ToolImages(h) ==
    { h[i].result.img : i \in { n \in 1..Len(h) : h[n].role = "tool" /\ HasImg(h[n].result.img) } }
\* Whether a request holds the image as an image part of a turn or of a
\* tool result.
CarriesImage(r, img) ==
    \E k \in 1..Len(r.msgs) :
        \/ img \in SeqSet(r.msgs[k].imgs)
        \/ \E n \in 1..Len(r.msgs[k].results) : r.msgs[k].results[n].img = img

\* C9: after a switch from one vision-capable provider to another, the
\* next request holds a native image part for every image a tool message
\* of the history holds, with the same media type and payload.
C9_ImageSurvivesSwitch ==
    [][(/\ switchedFrom \in VisionProviders
        /\ llmProvider \in VisionProviders \ {switchedFrom}
        /\ Query({0})) =>
          \A img \in ToolImages(TrimConversationHistory(conversation', maxConversationHistoryLength)) :
              \A r \in InFlight' : CarriesImage(r, img)]_vars

C11_RequestsDeclareTools ==
    \A r \in InFlight : tools # {} => r.tools = tools

\* A loop iteration of some handler has just got past its callTool with no
\* result: the call threw, or no server offers the tool.
ToolThrew(i) ==
    /\ i \in 1..Len(tasks')
    /\ \E k \in 1..Len(tasks'[i]) :
          LET fr == tasks'[i][k]
          IN /\ fr.f = "loop" /\ fr.step = "cont" /\ fr.aug = NoResult
             /\ \/ i > Len(tasks)
                \/ k > Len(tasks[i])
                \/ tasks[i][k] # fr

\* The error of the first call of the topmost loop frame is the last
\* message of the history, a continuation request is in flight above the
\* loop frame, and the frame still holds the calls that remain.
ErrorRecorded(i) ==
    LET s == tasks[i]
        fr == s[Len(s) - 1]
    IN /\ Len(s) >= 2
       /\ fr.f = "loop" /\ fr.step = "cont" /\ fr.calls # << >>
       /\ Last(s).f = "cc" /\ Last(s).req # NoReq
       /\ conversation # << >>
       /\ Last(conversation) = ToolMsg(Head(fr.calls), ErrorResult)
       /\ Last(conversation).result.text = "error"

\* With no handler in flight, no tool message is the last of the history,
\* and with no bound every tool call of every assistant message of the
\* history has its tool message after it.
TurnsCompleted ==
    tasks = << >> =>
        /\ conversation # << >> => Last(conversation).role # "tool"
        /\ maxConversationHistoryLength = 0 =>
             \A i \in 1..Len(conversation) :
                 \A k \in 1..Len(conversation[i].tool_calls) :
                     \E j \in (i + 1)..Len(conversation) :
                         /\ conversation[j].role = "tool"
                         /\ conversation[j].tool_call_id = conversation[i].tool_calls[k].id
                         /\ conversation[j].name = conversation[i].tool_calls[k].name

\* C12: when a tool invocation throws (or no server offers the tool), a
\* tool message with the call's id and the error text is appended and a
\* continuation request is sent; the remaining tool calls of the assistant
\* message are still processed before the turn ends.
C12_ToolErrorContinues ==
    [][/\ \A i \in 1..MaxTasks : ToolThrew(i) => ErrorRecorded(i)'
       /\ TurnsCompleted']_vars

\* A turn has ended in which the first of two tool calls failed and the
\* second returned a result.
C12_Witness ==
    /\ tasks = << >>
    /\ maxConversationHistoryLength = 0
    /\ \E i, j, n \in 1..Len(conversation) :
          /\ Len(conversation[i].tool_calls) = 2
          /\ i < j /\ j < n
          /\ conversation[j].role = "tool" /\ conversation[j].result = ErrorResult
          /\ conversation[j].tool_call_id = conversation[i].tool_calls[1].id
          /\ conversation[n].role = "tool" /\ conversation[n].result \in ToolResults
          /\ conversation[n].tool_call_id = conversation[i].tool_calls[2].id

\* The request a handler awaits in the current state rejects in this step,
\* at the call site f ("pq": processQuery, "cc": continueConversation).
RequestFailed(f) ==
    /\ rejected'
    /\ \E i \in 1..Len(tasks) : Last(tasks[i]).f = f /\ Last(tasks[i]).req # NoReq

\* The step appends the assistant message m right after the messages the
\* history held.
AppendsError(m) ==
    /\ Len(conversation') > Len(conversation)
    /\ SubSeq(conversation', 1, Len(conversation)) = conversation
    /\ conversation'[Len(conversation) + 1] = m

\* C13: a request that fails in processQuery or in continueConversation
\* leaves an assistant message with the error text in the history; the
\* handler of a failed initial query ends, and a query entered after the
\* error message of a failed request is sent to the provider as any other.
C13_LLMErrorRecorded ==
    [][/\ RequestFailed("pq") =>
             /\ AppendsError(AssistantMsg(ApiError, << >>))
             /\ tasks' = << >>
       /\ RequestFailed("cc") =>
             AppendsError(AssistantMsg(ApiErrorContinuing, << >>))
       /\ (/\ Query({0})
           /\ currentLlmProviderInstance # NoInst
           /\ conversation # << >>
           /\ StartsWithApiError(Last(conversation).text)) =>
             /\ Last(conversation') = UserMsg("q")
             /\ \E r \in InFlight' : r.msgs # << >> /\ Last(r.msgs).role = "user"
                                     /\ Last(r.msgs).text = "q"]_vars

\* A query is in flight that was entered right after the error message of
\* a failed continuation, itself preceded by the error of a failed query.
C13_Witness ==
    /\ Len(conversation) >= 2
    /\ Last(conversation) = UserMsg("q")
    /\ conversation[Len(conversation) - 1] = AssistantMsg(ApiErrorContinuing, << >>)
    /\ InFlight # {}

\* The messages of the history from position i up to the next query
\* message, or to the end.
TurnFrom(h, i) ==
    LET later == { j \in (i + 1)..Len(h) : h[j] = UserMsg("q") }
        stop == IF later = {} THEN Len(h) + 1
                ELSE CHOOSE j \in later : \A n \in later : j <= n
    IN SubSeq(h, i, stop - 1)

\* C14: a turn whose first reply has exactly one tool call, whose tool
\* gives no image and whose continuation reply has no tool call leaves
\* exactly four messages: user, assistant with the call, tool, assistant.
C14_FourMessagesPerToolTurn ==
    (tasks = << >> /\ maxConversationHistoryLength = 0) =>
        \A i \in 1..Len(conversation) :
            LET t == TurnFrom(conversation, i)
            IN (/\ conversation[i] = UserMsg("q")
                /\ Len(t) >= 2
                /\ t[2].role = "assistant" /\ Len(t[2].tool_calls) = 1) =>
                   /\ Len(t) >= 3
                   /\ t[3].role = "tool"
                   /\ t[3].tool_call_id = t[2].tool_calls[1].id
                   /\ ~HasImg(t[3].result.img) =>
                         /\ Len(t) >= 4
                         /\ t[4].role = "assistant"
                         /\ t[4].tool_calls = << >> => Len(t) = 4

\* A finished turn of that kind, under a provider that adds a user message
\* for an image of a tool.
C14_Witness ==
    /\ tasks = << >>
    /\ maxConversationHistoryLength = 0
    /\ llmProvider \in {"huggingface", "deepseek"}
    /\ Len(conversation) = 4
    /\ conversation[1] = UserMsg("q")
    /\ Len(conversation[2].tool_calls) = 1
    /\ conversation[3].role = "tool"
    /\ conversation[3].result = [kind |-> "content", text |-> "r", img |-> NoImg]
    /\ conversation[4] = AssistantMsg("a", << >>)

\* The activation fr awaits a reply of the provider or the result of a tool.
Awaiting(fr) == fr.req # NoReq \/ (fr.f = "loop" /\ fr.step = "tool")

\* C15: within a turn only the innermost activation awaits a request or a
\* tool, and at the moment a tool is invoked no tool message is the last of
\* the history: the continuation of the call before it has completed.
C15_OneOutstanding ==
    \A i \in 1..Len(tasks) :
        LET s == tasks[i]
        IN /\ \A k \in 1..(Len(s) - 1) : ~Awaiting(s[k])
           /\ Awaiting(Last(s))
           /\ (Last(s).f = "loop" /\ Last(s).step = "tool") =>
                 /\ conversation # << >>
                 /\ Last(conversation).role # "tool"

\* The second tool call of an assistant message is being invoked, after the
\* continuation of the first has completed.
C15_Witness ==
    /\ tasks # << >>
    /\ Last(tasks[1]).f = "loop" /\ Last(tasks[1]).step = "tool"
    /\ Len(Last(tasks[1]).calls) = 1
    /\ \E i \in 1..Len(conversation) :
          /\ Len(conversation[i].tool_calls) = 2
          /\ conversation[i].tool_calls[2] = Head(Last(tasks[1]).calls)
          /\ \E j \in (i + 1)..(Len(conversation) - 1) :
                /\ conversation[j].role = "tool"
                /\ conversation[j].tool_call_id = conversation[i].tool_calls[1].id

\* Providers that take no image inside a tool result.
TwoStepProviders == {"openai", "huggingface", "google"}

\* Whether a request holds the image in a user turn.
CarriesUserImage(r, img) ==
    \E k \in 1..Len(r.msgs) : r.msgs[k].role = "user" /\ img \in SeqSet(r.msgs[k].imgs)

\* The handler i awaits a request of the continuation of a tool call whose
\* result holds an image, and the reply that arrives in this step ends the
\* continuation: the loop goes on to the next call or returns.
ImageCycleEnds(i) ==
    /\ i \in 1..Len(tasks)
    /\ LET s == tasks[i]
           n == Len(s)
       IN /\ n >= 2
          /\ s[n].f = "cc" /\ s[n].req # NoReq
          /\ s[n - 1].f = "loop" /\ HasImg(s[n - 1].aug.img)
          /\ ~rejected'
          /\ \/ Len(tasks') < i
             \/ Len(tasks'[i]) < n - 1
             \/ tasks'[i][n - 1] # s[n - 1]

\* C16: under OpenAI, HuggingFace and Google, the continuation of a tool
\* call whose result holds an image ends with the reply to a request that
\* carries the image in a user turn, and that reply is appended to the
\* history as an assistant message.
C16_ImageTurnSentInCycle ==
    [][\A i \in 1..MaxTasks :
          (ImageCycleEnds(i) /\ Last(tasks[i]).req.to \in TwoStepProviders) =>
              /\ CarriesUserImage(Last(tasks[i]).req, tasks[i][Len(tasks[i]) - 1].aug.img)
              /\ Len(conversation') > Len(conversation)
              /\ conversation'[Len(conversation) + 1].role = "assistant"]_vars

\* C17: every image part of a user message of the history is a canonical
\* image_mcp part (media type and base64 data), whichever provider ran
\* the tool; no provider-native image part is in the history.
C17_CanonicalImageParts ==
    \A i \in 1..Len(conversation) :
        \A k \in 1..Len(conversation[i].parts) :
            HasImg(conversation[i].parts[k].img) =>
                conversation[i].parts[k].type = "image_mcp"

\* C18: every request is sent with the system message that is set: after
\* /setsystem M the next request has M as its system message, whichever
\* provider is active.
C18_RequestsUseSystemMessage ==
    \A r \in InFlight : r.sys = systemMessage

\* C19: with a bound N > 0 configured, the history holds at most N
\* messages whenever no input is being processed.
C19_HistoryWithinBound ==
    (tasks = << >> /\ maxConversationHistoryLength > 0) =>
        Len(conversation) <= maxConversationHistoryLength

\* C20: for a reply with one well-formed tool call and one whose
\* arguments do not parse, extractToolCalls of every adapter throws nothing
\* and returns exactly the well-formed call.
C20_MalformedCallDropped ==
    LET raw == llmResponse.tool_calls
        good == { k \in 1..Len(raw) : raw[k].arguments = WellFormed }
        bad == { k \in 1..Len(raw) : raw[k].arguments = Malformed }
    IN (/\ extracted.done
        /\ Len(raw) = 2
        /\ Cardinality(good) = 1 /\ Cardinality(bad) = 1) =>
           /\ ~extracted.threw
           /\ Len(extracted.calls) = 1
           /\ \E k \in good : /\ extracted.calls[1].id = raw[k].id
                              /\ extracted.calls[1].name = raw[k].name

\* C21: extractToolCalls of every adapter gives null, never an empty
\* list, for a reply with no tool call, the reply whose list of tool calls
\* is present and empty included.
C21_NullWhenNoToolCalls ==
    (extracted.done /\ llmResponse.tool_calls = << >>) =>
        ~extracted.threw /\ extracted.null

\* The result entries of a request, with the position of their turn.
ResultEntries(out) ==
    { <<p, n>> : p \in 1..Len(out), n \in 1..MaxCalls } \cap
    UNION { { <<p, n>> : n \in 1..Len(out[p].results) } : p \in 1..Len(out) }

\* Whether the result entry at <<p, n>> of a request answers the k-th call
\* of the assistant message with FirstCall and SecondCall: by the id it
\* carries or, for a functionResponse, which carries a name only, by being
\* the k-th response since the model turn.
AnswersCall(out, p, n, k) ==
    LET fr == out[p].results[n]
        c == IF k = 1 THEN FirstCall ELSE SecondCall
        turns == { q \in 1..(p - 1) : out[q].role = "model" }
        since == IF turns = {} THEN 0 ELSE MaxOf(turns)
    IN IF fr.id # NoId THEN fr.id = c.id
       ELSE /\ fr.name = c.name
            /\ Cardinality({ q \in (since + 1)..(p - 1) : out[q].role = "function" }) = k - 1

\* C22: for an assistant message with the calls [c1, c2] followed by the
\* tool messages of both, in either order, the formatted request of every
\* adapter gives the result of c1 as the answer of c1 and the result of c2
\* as the answer of c2.
C22_ResultsPairedWithCalls ==
    (/\ formatted.done
     /\ \E i \in 1..(Len(conversation) - 2) :
           /\ conversation[i] = AssistantMsg("", <<FirstCall, SecondCall>>)
           /\ {conversation[i + 1], conversation[i + 2]}
                = {ToolMsg(FirstCall, JsonResult(WellFormed)),
                   ToolMsg(SecondCall, JsonResult(OtherJson))}) =>
        /\ \E e \in ResultEntries(formatted.msgs) :
              formatted.msgs[e[1]].results[e[2]].text = WellFormed
        /\ \E e \in ResultEntries(formatted.msgs) :
              formatted.msgs[e[1]].results[e[2]].text = OtherJson
        /\ \A e \in ResultEntries(formatted.msgs) :
              LET fr == formatted.msgs[e[1]].results[e[2]]
              IN /\ fr.text = WellFormed => AnswersCall(formatted.msgs, e[1], e[2], 1)
                 /\ fr.text = OtherJson => AnswersCall(formatted.msgs, e[1], e[2], 2)

\* C23: with a system message configured, the request of the OpenAI,
\* DeepSeek and HuggingFace adapters starts with a system message and holds
\* no other one, for every history, one that starts with a system message
\* included.
C23_ExactlyOneSystemMessage ==
    (/\ formatted.done
     /\ llmProvider \in {"openai", "deepseek", "huggingface"}
     /\ currentLlmProviderInstance.sys # "") =>
        /\ Len(formatted.msgs) >= 1
        /\ formatted.msgs[1].role = "system"
        /\ \A p \in 2..Len(formatted.msgs) : formatted.msgs[p].role # "system"

C25_FallbackSerialisesWholeResult ==
    (/\ converted.done
     /\ mcpToolResult.kind = "content"
     /\ TextIdx(mcpToolResult.blocks) = {}
     /\ DefinedDataIdx(mcpToolResult.blocks) = {}
     /\ ImageIdx(mcpToolResult.blocks) = {}) =>
        converted.text = Stringified /\ converted.img = NoImg

\* C26: no request formatted for DeepSeek holds image data: no turn has
\* an image part and no tool result entry holds an image or a text with
\* the base64 data of one.
C26_NoImageDataForDeepSeek ==
    (formatted.done /\ llmProvider = "deepseek") =>
        /\ \A p \in 1..Len(formatted.msgs) : formatted.msgs[p].imgs = << >>
        /\ \A e \in ResultEntries(formatted.msgs) :
              /\ formatted.msgs[e[1]].results[e[2]].img = NoImg
              /\ formatted.msgs[e[1]].results[e[2]].text # StringifiedImage

\* The images of the image, image_url and image_mcp parts of a history's
\* user messages.
UserImages(h) ==
    UNION { { h[i].parts[k].img :
                k \in { n \in 1..Len(h[i].parts) :
                          h[i].parts[n].type \in {"image", "image_url", "image_mcp"} } }
            : i \in { j \in 1..Len(h) : h[j].role = "user" } }

\* C27: an image part of a user message, left in the history by a tool
\* result or by another provider's native form, is in the request of every
\* adapter that sends images with the same media type and the same base64
\* data, whatever the media type.
C27_ImagesReachRequestUnchanged ==
    (formatted.done /\ llmProvider # "deepseek") =>
        \A img \in UserImages(conversation) :
            \E p \in 1..Len(formatted.msgs) :
                \E k \in 1..Len(formatted.msgs[p].imgs) : formatted.msgs[p].imgs[k] = img

\* C28: the text prompt of the synthetic image turn, of OpenAI and of
\* Google, ends with the image-prompt suffix the client has at that
\* moment.
C28_ImagePromptEndsWithSuffix ==
    [][ImagePromptStep => imagePrompt'.suffix = imageAnalysisPromptSuffix]_vars

\* C29: a step other than /clear keeps the messages of the history as they
\* were and in their order, adding messages at the end only, but for a
\* prefix that a trim removed; with no bound configured nothing is removed.
C29_HistoryGrowsAtEnd ==
    [][~Clear({0}) =>
          \E k \in 0..Len(conversation) :
              /\ k > 0 => /\ maxConversationHistoryLength > 0
                          /\ Len(conversation') >= maxConversationHistoryLength
              /\ Len(conversation') >= Len(conversation) - k
              /\ SubSeq(conversation', 1, Len(conversation) - k)
                   = SubSeq(conversation, k + 1, Len(conversation))]_vars

C29_Witness ==
    /\ trimmed > 0
    /\ Len(conversation) > maxConversationHistoryLength
    /\ conversation[1].role # "user"

C31_TrimNoOpAndIdempotent ==
    LET once == TrimConversationHistory(conversation, maxConversationHistoryLength)
    IN /\ (maxConversationHistoryLength = 0
             \/ Len(conversation) <= maxConversationHistoryLength) =>
            /\ Len(once) = Len(conversation)
            /\ \A k \in 1..Len(conversation) : once[k] = conversation[k]
       /\ TrimConversationHistory(once, maxConversationHistoryLength) = once

\* A trim has cut the history down to the bound: the next one is the trim
\* of a history at the bound.
C31_Witness ==
    /\ trimmed = 1
    /\ maxConversationHistoryLength = MaxLen - 1
    /\ Len(conversation) = maxConversationHistoryLength

\* C32: when every request and every tool invocation settles and the model
\* stops asking for tools, the processing of an input ends: the handler of
\* the line returns and no activation is left awaiting.
C32_ProcessingTerminates == (tasks # << >>) ~> (tasks = << >>)

\* An input whose processing went through a tool cycle has ended.
C32_Witness ==
    /\ tasks = << >>
    /\ rounds > 0
    /\ \E i \in 1..Len(conversation) : conversation[i].role = "tool"

\* Whether the tool calls of the assistant turn at p of a request are all
\* answered by the tool turns that follow it directly.
AnsweredDirectly(msgs, p) ==
    LET n == Len(msgs[p].calls)
    IN /\ p + n <= Len(msgs)
       /\ \A k \in 1..n : /\ msgs[p + k].role = "tool"
                          /\ Len(msgs[p + k].results) = 1
       /\ { msgs[p].calls[k] : k \in 1..n }
            = { msgs[p + k].results[1].id : k \in 1..n }

\* C33: in every request to OpenAI, DeepSeek or HuggingFace, an assistant
\* message with tool calls is followed directly by the tool messages that
\* answer all of its calls.
C33_ToolCallsAnsweredDirectly ==
    \A r \in InFlight :
        r.to \in {"openai", "deepseek", "huggingface"} =>
            \A p \in 1..Len(r.msgs) :
                (r.msgs[p].role = "assistant" /\ r.msgs[p].calls # << >>) =>
                    AnsweredDirectly(r.msgs, p)

\* C34: while an input is processed the active provider stays the one its
\* requests went to: the adapter that will parse the reply to a request in
\* flight, and send the continuation, is the adapter that sent the request.
C34_ProviderFixedWhileProcessing ==
    \A r \in InFlight : currentLlmProviderInstance.kind = r.to

\* C35: the request of the first query after /clear (the history is empty
\* when the query is entered, and the provider instance is in place)
\* carries, the system message apart, the turn of that query only.
C35_ClearedHistoryNotSent ==
    [][(Query({0}) /\ conversation = << >> /\ currentLlmProviderInstance # NoInst) =>
          \A r \in InFlight' :
              Cardinality({ k \in 1..Len(r.msgs) : r.msgs[k].role # "system" }) = 1]_vars

\* The tool calls of the history, by the position of their message and
\* their place in it.
HistoryCalls ==
    UNION { { <<j, k>> : k \in 1..Len(conversation[j].tool_calls) } : j \in 1..Len(conversation) }

\* C36: no two tool calls of the history, those of one assistant message
\* included, have the same id.
C36_ToolCallIdsDistinct ==
    \A a \in HistoryCalls, b \in HistoryCalls :
        a # b => conversation[a[1]].tool_calls[a[2]].id # conversation[b[1]].tool_calls[b[2]].id

\* C37: an accepted switch leaves a usable adapter: whenever the active
\* adapter is the stateful-session provider's, its chat session exists; a
\* failure to create the model or the session is reported as a failed
\* switch, which leaves no adapter at all.
C37_ActiveProviderHasSession ==
    currentLlmProviderInstance.kind = "google" => currentLlmProviderInstance.chat

\* The tool calls of the history that carry the id and the name of the call
\* at position a, and the tool messages that carry them.
CallsLike(a) ==
    { b \in HistoryCalls :
        /\ conversation[b[1]].tool_calls[b[2]].id = conversation[a[1]].tool_calls[a[2]].id
        /\ conversation[b[1]].tool_calls[b[2]].name = conversation[a[1]].tool_calls[a[2]].name }
ToolMessagesFor(a) ==
    { j \in 1..Len(conversation) :
        /\ conversation[j].role = "tool"
        /\ conversation[j].tool_call_id = conversation[a[1]].tool_calls[a[2]].id
        /\ conversation[j].name = conversation[a[1]].tool_calls[a[2]].name }

\* C38: as long as nothing has been trimmed from the history, every tool
\* message answers a tool call of an assistant message, no tool call has
\* more tool messages with its id and name than there are such calls, and
\* once the handlers have returned every tool call has exactly one,
\* whether the tool returned, threw, or the continuation after it failed.
C38_OneToolMessagePerCall ==
    trimmed = 0 =>
        /\ \A j \in 1..Len(conversation) :
               conversation[j].role = "tool" => \E a \in HistoryCalls : j \in ToolMessagesFor(a)
        /\ \A a \in HistoryCalls :
               /\ Cardinality(ToolMessagesFor(a)) <= Cardinality(CallsLike(a))
               /\ tasks = << >> => Cardinality(ToolMessagesFor(a)) = Cardinality(CallsLike(a))
\* A reply asked for two tools; one threw, and a continuation failed; both
\* calls have their tool message and the handlers have returned.
C38_Witness ==
    /\ trimmed = 0
    /\ tasks = << >>
    /\ \E j \in 1..Len(conversation) : Len(conversation[j].tool_calls) = 2
    /\ \E j \in 1..Len(conversation) :
          conversation[j].role = "tool" /\ conversation[j].result = ErrorResult
    /\ \E j \in 1..Len(conversation) :
          conversation[j].role = "assistant" /\ conversation[j].text = ApiErrorContinuing

\* The image_mcp user messages of the history, its tool messages whose
\* result holds an image, and the tool calls whose continuation has not
\* returned yet although their result holds an image.
ImageMcpMessages ==
    { j \in 1..Len(conversation) :
        /\ conversation[j].role = "user"
        /\ \E k \in 1..Len(conversation[j].parts) : conversation[j].parts[k].type = "image_mcp" }
ImageToolMessages ==
    { j \in 1..Len(conversation) :
        /\ conversation[j].role = "tool"
        /\ HasImg(ExtractImageFromMcpToolResult(conversation[j].result)) }
PendingAugmentations ==
    UNION { { <<i, k>> : k \in { n \in 1..Len(tasks[i]) :
                                   /\ tasks[i][n].f = "loop"
                                   /\ tasks[i][n].step = "cont"
                                   /\ HasImg(ExtractImageFromMcpToolResult(tasks[i][n].aug)) } }
            : i \in 1..Len(tasks) }

\* C39: under a provider the augmentation applies to, every tool result
\* with an image has its image_mcp message in the history exactly when its
\* continuation, nested tool cycles included, has returned, and no
\* image_mcp message stands directly after a tool message.
C39_AugmentationAfterContinuation ==
    /\ Cardinality(ImageMcpMessages) + Cardinality(PendingAugmentations)
           = Cardinality(ImageToolMessages)
    /\ \A j \in ImageMcpMessages : j > 1 /\ conversation[j - 1].role # "tool"
\* A tool call inside the continuation of a tool call, both with an image:
\* the reply to the first result asked for the second tool, and both
\* image_mcp messages stand after the reply that ended the inner cycle.
C39_Witness ==
    /\ tasks = << >>
    /\ \E t \in ImageToolMessages :
          /\ t + 4 <= Len(conversation)
          /\ conversation[t + 1].role = "assistant"
          /\ conversation[t + 1].tool_calls # << >>
          /\ t + 2 \in ImageToolMessages
          /\ conversation[t + 3].role = "assistant"
          /\ ImageMcpMessages = {t + 4, t + 5}

\* The user turns of a request that carry an image.
ImageTurns(msgs) == { k \in 1..Len(msgs) : msgs[k].role = "user" /\ msgs[k].imgs # << >> }

\* C40: while the only images of the history are those tools returned and
\* the image messages of OpenAI's two-step cycle, a request to OpenAI has
\* no more user turns with an image than the history has tool results with
\* one: each tool's image is in one user turn at most.
C40_ToolImageInOneUserTurn ==
    \A r \in InFlight :
        (r.to = "openai" /\ ImageMcpMessages = {}) =>
            Cardinality(ImageTurns(r.msgs)) <= Cardinality(ImageToolMessages)

====
